---- MODULE Spec2Model ----
(***************************************************************************)
(* Model of the Trader XO signal state machine                             *)
(* (src/src/strategies/trader_xo.py).                                      *)
(*                                                                         *)
(* Prices and indicator values are Python floats in the source.  They are  *)
(* modelled as exact rationals [n |-> numerator, d |-> denominator > 0],   *)
(* kept in lowest terms; the value None is the record with d = 0.          *)
(***************************************************************************)
EXTENDS Integers, Sequences, FiniteSets, TLC

(***************************************************************************)
(* Bounds of the model.                                                    *)
(***************************************************************************)
\* longest price history a caller hands to analyze
MaxLen == 7
\* analyze is not called any more once a debounce counter reached this value
MaxCount == 2

(***************************************************************************)
(* Exact rational arithmetic standing in for float arithmetic.             *)
(***************************************************************************)
RECURSIVE GCD(_, _)
GCD(a, b) == IF b = 0 THEN a ELSE GCD(b, a % b)

Abs(x) == IF x < 0 THEN -x ELSE x

None == [n |-> 0, d |-> 0]

IsNone(x) == x.d = 0

Norm(num, den) ==
    LET g == GCD(Abs(num), Abs(den))
        s == IF den < 0 THEN -1 ELSE 1
    IN  [n |-> s * (num \div g), d |-> s * (den \div g)]

R(i) == [n |-> i, d |-> 1]

RAdd(x, y) == Norm(x.n * y.d + y.n * x.d, x.d * y.d)
RSub(x, y) == Norm(x.n * y.d - y.n * x.d, x.d * y.d)
RMul(x, y) == Norm(x.n * y.n, x.d * y.d)
\* division by zero is never evaluated: every divisor in the source is a
\* positive period or is guarded by a test (avg_loss == 0, highest == lowest)
RDiv(x, y) == Norm(x.n * y.d, x.d * y.n)
RLt(x, y) == x.n * y.d < y.n * x.d
RLe(x, y) == x.n * y.d <= y.n * x.d
RGt(x, y) == RLt(y, x)
RGe(x, y) == RLe(y, x)
RAbs(x) == [n |-> Abs(x.n), d |-> x.d]
\* Python truthiness of an Optional[float]: None and 0.0 are both falsy
Truthy(x) == ~IsNone(x) /\ x.n # 0

RECURSIVE RSum(_)
RSum(s) == IF s = <<>> THEN R(0) ELSE RAdd(Head(s), RSum(Tail(s)))

RMax2(x, y) == IF RLt(x, y) THEN y ELSE x
RMin2(x, y) == IF RLt(y, x) THEN y ELSE x

RECURSIVE RMax(_)
RMax(s) == IF Len(s) = 1 THEN s[1] ELSE RMax2(Head(s), RMax(Tail(s)))

RECURSIVE RMin(_)
RMin(s) == IF Len(s) = 1 THEN s[1] ELSE RMin2(Head(s), RMin(Tail(s)))

\* prices[:i] and prices[-n:] of Python, for 0 <= i, n <= len
Prefix(s, i) == SubSeq(s, 1, i)
LastN(s, n) == SubSeq(s, Len(s) - n + 1, Len(s))

(***************************************************************************)
(* Configuration of one TraderXOStrategy instance.  The periods are the    *)
(* constructor's parameters, set to small values so that every lookback    *)
(* is reached within MaxLen bars.                                          *)
(***************************************************************************)
fast_ema_period == 2
slow_ema_period == 3
ma_filter_period == 5
stoch_rsi_k == 2
stoch_rsi_d == 2
stoch_rsi_length == 2
stoch_length == 2
stoch_middle_band == 50

(***************************************************************************)
(* Indicator library.                                                      *)
(***************************************************************************)
RECURSIVE ema_fold(_, _, _, _)
ema_fold(prices, i, ema, multiplier) ==
    IF i > Len(prices) THEN ema
    ELSE ema_fold(prices, i + 1,
                  RAdd(RMul(RSub(prices[i], ema), multiplier), ema),
                  multiplier)

\* calculate_ema seeded with the mean of the last period prices
calculate_ema_seed_last(prices, period) ==
    IF prices = <<>> \/ Len(prices) < period THEN None
    ELSE ema_fold(prices, period + 1,
                  RDiv(RSum(LastN(prices, period)), R(period)),
                  RDiv(R(2), R(period + 1)))

\* lines 91-112
calculate_ema(prices, period) ==
    IF prices = <<>> \/ Len(prices) < period THEN None
    ELSE ema_fold(prices, period + 1,
                  RDiv(RSum(Prefix(prices, period)), R(period)),
                  RDiv(R(2), R(period + 1)))

calculate_sma(prices, period) ==
    IF prices = <<>> \/ Len(prices) < period THEN None
    ELSE RDiv(RSum(LastN(prices, period)), R(period))

calculate_wma(prices, period) ==
    IF prices = <<>> \/ Len(prices) < period THEN None
    ELSE LET last == LastN(prices, period)
             weighted == [w \in 1..period |-> RMul(last[w], R(w))]
         IN  RDiv(RSum(weighted), R((period * (period + 1)) \div 2))

calculate_rsi(prices, period) ==
    IF prices = <<>> \/ Len(prices) < period + 1 THEN None
    ELSE LET change(i) == RSub(prices[i + 1], prices[i])
             gains == [i \in 1..(Len(prices) - 1) |->
                         IF RGt(change(i), R(0)) THEN change(i) ELSE R(0)]
             losses == [i \in 1..(Len(prices) - 1) |->
                         IF RGt(change(i), R(0)) THEN R(0) ELSE RAbs(change(i))]
             avg_gain == RDiv(RSum(LastN(gains, period)), R(period))
             avg_loss == RDiv(RSum(LastN(losses, period)), R(period))
         IN  IF avg_loss = R(0) THEN R(100)
             ELSE LET rs == RDiv(avg_gain, avg_loss)
                  IN  RSub(R(100), RDiv(R(100), RAdd(R(1), rs)))

\* the RSI series over growing prefixes (lines 186-190); the prefix of
\* length stoch_rsi_length yields None and is skipped
rsi_series(prices) ==
    [j \in 1..(Len(prices) - stoch_rsi_length) |->
        calculate_rsi(Prefix(prices, stoch_rsi_length + j), stoch_rsi_length)]

\* stoch_series giving 0 for a window whose highest and lowest RSI are equal
stoch_series_flat_zero(rsi_values) ==
    [j \in 1..(Len(rsi_values) - stoch_length + 1) |->
        LET window == SubSeq(rsi_values, j, j + stoch_length - 1)
            highest == RMax(window)
            lowest == RMin(window)
        IN  IF highest = lowest THEN R(0)
            ELSE RDiv(RMul(R(100), RSub(window[stoch_length], lowest)),
                      RSub(highest, lowest))]

\* the raw stochastic-of-RSI series (lines 196-206)
stoch_series(rsi_values) ==
    [j \in 1..(Len(rsi_values) - stoch_length + 1) |->
        LET window == SubSeq(rsi_values, j, j + stoch_length - 1)
            highest == RMax(window)
            lowest == RMin(window)
        IN  IF highest = lowest THEN R(50)
            ELSE RDiv(RMul(R(100), RSub(window[stoch_length], lowest)),
                      RSub(highest, lowest))]

NoStoch == [k |-> None, d |-> None]

calculate_stochastic_rsi(prices) ==
    IF prices = <<>> \/ Len(prices) < stoch_rsi_length + stoch_length
    THEN NoStoch
    ELSE LET rsi_values == rsi_series(prices)
         IN  IF Len(rsi_values) < stoch_length THEN NoStoch
             ELSE LET stoch_values == stoch_series(rsi_values)
                  IN  IF Len(stoch_values) < stoch_rsi_k THEN NoStoch
                      ELSE LET k == RDiv(RSum(LastN(stoch_values, stoch_rsi_k)),
                                         R(stoch_rsi_k))
                               k_values ==
                                 [j \in 1..(Len(stoch_values) - stoch_rsi_k + 1) |->
                                    RDiv(RSum(SubSeq(stoch_values, j,
                                                     j + stoch_rsi_k - 1)),
                                         R(stoch_rsi_k))]
                               d == IF Len(stoch_values) < stoch_rsi_k + stoch_rsi_d
                                    THEN k
                                    ELSE RDiv(RSum(LastN(k_values, stoch_rsi_d)),
                                              R(stoch_rsi_d))
                           IN  [k |-> k, d |-> d]

(***************************************************************************)
(* State.                                                                  *)
(***************************************************************************)
VARIABLES
    cfg,          \* the constructor's arguments that are not periods
    prev_states,  \* self.prev_states: asset -> stored signal state
    hist,         \* the caller's market data: asset -> price history
    result,       \* the dict the last analyze call returned
    call,         \* the last analyze call: its arguments and how it ended
    bar_signals,  \* the signals the per-bar driver collected, in order
    candidates,   \* the per-call driver's record: asset -> the sides with
                  \* a crossover candidate evaluated since the last
                  \* completed evaluation of the other trend
    inflight,     \* overlapping analyze calls: worker -> the call it is in
    done,         \* worker -> how its last analyze call ended
    mm_cfg,       \* the arguments of MarketMakingStrategy's constructor
    last_refresh, \* self.last_refresh: asset -> time of mark_refreshed
    now,          \* datetime.now(timezone.utc), in seconds
    levels,       \* the dict the last calculate_order_levels call returned
    plan,         \* the market making plan the caller holds
    mm_call,      \* the last MarketMakingStrategy call and its arguments
    decisions,    \* the last generate_trade_decisions call and what it returned
    ind_call,     \* the last direct call of an indicator function
    book,         \* the exchange: the account's open orders
    dex_call      \* the last LighterAPI call and how it ended

xo_vars == <<cfg, prev_states, hist, result, call, bar_signals, candidates>>
race_vars == <<inflight, done>>
mm_vars == <<mm_cfg, last_refresh, now, levels, plan, mm_call>>
dex_vars == <<book, dex_call>>
app_vars == <<decisions, ind_call, dex_vars>>
vars == <<xo_vars, race_vars, mm_vars, app_vars>>

Assets == {"BTC", "ETH"}
\* the price levels of the model
Prices == {R(1), R(2)}

\* every price history a caller can hold
Histories == UNION {[1..n -> Prices] : n \in 0..MaxLen}

\* the price history rises (weakly) up to some bar and falls (weakly) after it
RiseThenFall(h) ==
    \E k \in 1..Len(h) :
        /\ \A i \in 1..(k - 1) : RLe(h[i], h[i + 1])
        /\ \A i \in k..(Len(h) - 1) : RGe(h[i], h[i + 1])

\* the per-bar driver also feeds rise-then-fall histories over a third price
\* level
BarPrices == Prices \cup {R(3)}
RiseFallHistories ==
    {h \in UNION {[1..n -> BarPrices] : n \in 0..MaxLen} : RiseThenFall(h)}
BarHistories == Histories \cup RiseFallHistories

\* histories that start flat and then move over price levels at which the
\* fast and the slow EMA can meet again after they parted
TouchPrices == {R(6), R(7), R(9), R(12)}
MaxTouchLen == 2 * slow_ema_period
TouchHistories ==
    {h \in UNION {[1..n -> TouchPrices] : n \in 0..MaxTouchLen} :
        \A i \in 1..Len(h) : i <= slow_ema_period => h[i] = R(6)}
AllHistories == BarHistories \cup TouchHistories

\* The indicators of every history, computed once.  analyze looks its
\* indicator values up here; the entries are the values of calculate_ema,
\* calculate_sma, calculate_wma and calculate_stochastic_rsi.  (f @@ <<>>
\* is f; it makes TLC keep the table instead of recomputing each entry.)
Periods == {fast_ema_period, slow_ema_period, ma_filter_period}
EmaOf == [h \in AllHistories |-> ([p \in Periods |-> calculate_ema(h, p)] @@ <<>>)] @@ <<>>
SmaOf == [h \in AllHistories |-> calculate_sma(h, ma_filter_period)] @@ <<>>
WmaOf == [h \in AllHistories |-> calculate_wma(h, ma_filter_period)] @@ <<>>
StochOf == [h \in AllHistories |-> calculate_stochastic_rsi(h)] @@ <<>>

\* ma_filter_type: the four documented values and one that is none of them
KnownFilterTypes == {"EMA", "SMA", "WMA", "None"}
FilterTypes == KnownFilterTypes \cup {"HMA"}

\* (use_stop_loss, stop_loss_percent)
StopLossConfigs == {<<FALSE, 7>>, <<TRUE, 7>>, <<TRUE, 100>>}

AllConfigs ==
    {[ma_filter_type |-> t, use_stoch_confirmation |-> s,
      use_stop_loss |-> sl[1], stop_loss_percent |-> R(sl[2])] :
        t \in FilterTypes, s \in BOOLEAN, sl \in StopLossConfigs}

\* the default stop-loss setting (lines 43-44)
default_stop_loss(c) == c.use_stop_loss /\ c.stop_loss_percent = R(7)

\* The instances the model constructs: every filter type with and without
\* stochastic confirmation under the default stop-loss setting, and every
\* stop-loss setting on the instance without filter and confirmation.
Configs ==
    {c \in AllConfigs :
        \/ default_stop_loss(c)
        \/ (c.ma_filter_type = "None" /\ ~c.use_stoch_confirmation)}

\* the instances driven with an external indicator source
TaapiConfigs ==
    {c \in Configs : default_stop_loss(c) /\ c.ma_filter_type = "None"}

\* what taapi_client.fetch_series returns: [current, previous], or too few
\* values to be used
TaapiSeries == {<<>>, <<R(2), R(1)>>}

\* the taapi_client argument: absent, a client whose first fetch raises, a
\* client whose first fetch returns a series and whose second raises, or a
\* client that returns the two series
TaapiClients ==
    {[kind |-> "none", fast |-> <<>>, slow |-> <<>>],
     [kind |-> "fail", fast |-> <<>>, slow |-> <<>>],
     [kind |-> "fail", fast |-> <<R(2), R(1)>>, slow |-> <<>>]}
    \cup {[kind |-> "data", fast |-> f, slow |-> s] :
            f \in TaapiSeries, s \in TaapiSeries}

NoTaapi == [kind |-> "none", fast |-> <<>>, slow |-> <<>>]

(***************************************************************************)
(* check_ma_filter                                                         *)
(***************************************************************************)
ma_filter_value(prices) ==
    IF cfg.ma_filter_type = "EMA" THEN EmaOf[prices][ma_filter_period]
    ELSE IF cfg.ma_filter_type = "SMA" THEN SmaOf[prices]
    ELSE IF cfg.ma_filter_type = "WMA" THEN WmaOf[prices]
    ELSE None

\* check_ma_filter comparing a sell the way it compares a buy
check_ma_filter_one_sided(current_price, prices, is_buy) ==
    IF cfg.ma_filter_type = "None" THEN TRUE
    ELSE IF IsNone(ma_filter_value(prices)) THEN TRUE
    ELSE RGt(current_price, ma_filter_value(prices))

check_ma_filter(current_price, prices, is_buy) ==
    IF cfg.ma_filter_type = "None" THEN TRUE
    ELSE LET ma_value == ma_filter_value(prices)
         IN  IF IsNone(ma_value) THEN TRUE
             ELSE IF is_buy THEN RGt(current_price, ma_value)
             ELSE RLt(current_price, ma_value)

(***************************************************************************)
(* analyze, step by step                                                   *)
(***************************************************************************)
\* result as initialised at lines 286-295
EmptyResult ==
    [signal |-> "hold", rationale |-> <<>>, stop_loss |-> None,
     take_profit |-> None, fast_ema |-> None, slow_ema |-> None,
     stoch_rsi |-> NoStoch]

\* insufficient_data without the length test
insufficient_data_empty_only(prices) == prices = <<>>

\* lines 297-299
insufficient_data(prices) ==
    prices = <<>> \/ Len(prices) < (IF fast_ema_period > slow_ema_period
                                    THEN fast_ema_period ELSE slow_ema_period)

\* prices[:-1]
ButLast(prices) == Prefix(prices, Len(prices) - 1)

\* ema_values that keeps the fast series fetched before the second fetch
\* raised
ema_values_partial(prices, taapi) ==
    LET local_fast == [cur |-> EmaOf[prices][fast_ema_period],
                       prev |-> EmaOf[ButLast(prices)][fast_ema_period]]
        local_slow == [cur |-> EmaOf[prices][slow_ema_period],
                       prev |-> EmaOf[ButLast(prices)][slow_ema_period]]
        fast == IF taapi.kind \in {"data", "fail"} /\ Len(taapi.fast) >= 2
                THEN [cur |-> taapi.fast[1], prev |-> taapi.fast[2]]
                ELSE local_fast
        slow == IF taapi.kind = "data" /\ Len(taapi.slow) >= 2
                THEN [cur |-> taapi.slow[1], prev |-> taapi.slow[2]]
                ELSE local_slow
    IN  [fast_cur |-> fast.cur, fast_prev |-> fast.prev,
         slow_cur |-> slow.cur, slow_prev |-> slow.prev]

\* lines 301-343: the four EMA values the evaluation uses
ema_values(prices, taapi) ==
    LET local_fast == [cur |-> EmaOf[prices][fast_ema_period],
                       prev |-> EmaOf[ButLast(prices)][fast_ema_period]]
        local_slow == [cur |-> EmaOf[prices][slow_ema_period],
                       prev |-> EmaOf[ButLast(prices)][slow_ema_period]]
        fast == IF taapi.kind = "data" /\ Len(taapi.fast) >= 2
                THEN [cur |-> taapi.fast[1], prev |-> taapi.fast[2]]
                ELSE local_fast
        slow == IF taapi.kind = "data" /\ Len(taapi.slow) >= 2
                THEN [cur |-> taapi.slow[1], prev |-> taapi.slow[2]]
                ELSE local_slow
    IN  [fast_cur |-> fast.cur, fast_prev |-> fast.prev,
         slow_cur |-> slow.cur, slow_prev |-> slow.prev]

\* line 345
ema_unavailable(e) ==
    IsNone(e.fast_cur) \/ IsNone(e.fast_prev) \/ IsNone(e.slow_cur) \/ IsNone(e.slow_prev)

\* lines 353-354
bullish_cross(e) == RLe(e.fast_prev, e.slow_prev) /\ RGt(e.fast_cur, e.slow_cur)
bearish_cross(e) == RGe(e.fast_prev, e.slow_prev) /\ RLt(e.fast_cur, e.slow_cur)

\* lines 357-359: prev_state = self.prev_states.get(asset, {})
has_state(states, asset) == asset \in DOMAIN states
prev_buy_count(states, asset) ==
    IF has_state(states, asset) THEN states[asset].buy_count ELSE 0
prev_sell_count(states, asset) ==
    IF has_state(states, asset) THEN states[asset].sell_count ELSE 0

\* update_counts with the reset of sell_count on the bullish branch left out
update_counts_no_reset(buy_count, sell_count, e) ==
    IF RGt(e.fast_cur, e.slow_cur)
    THEN [buy_count |-> buy_count + 1, sell_count |-> sell_count]
    ELSE IF RLt(e.fast_cur, e.slow_cur)
    THEN [buy_count |-> 0, sell_count |-> sell_count + 1]
    ELSE [buy_count |-> buy_count, sell_count |-> sell_count]

\* lines 361-370
update_counts(buy_count, sell_count, e) ==
    IF RGt(e.fast_cur, e.slow_cur)
    THEN [buy_count |-> buy_count + 1, sell_count |-> 0]
    ELSE IF RLt(e.fast_cur, e.slow_cur)
    THEN [buy_count |-> 0, sell_count |-> sell_count + 1]
    ELSE [buy_count |-> buy_count, sell_count |-> sell_count]

\* buysignal without the crossover test
buysignal_no_cross(c, e) ==
    c.buy_count < 2 /\ c.buy_count > 0 /\ c.sell_count < 1

\* buysignal without the upper end of its counter window
buysignal_no_debounce(c, e) ==
    c.buy_count > 0 /\ c.sell_count < 1 /\ bullish_cross(e)

\* sellsignal with its counter window off by one
sellsignal_off_by_one(c, e) ==
    c.sell_count > 1 /\ c.sell_count < 3 /\ c.buy_count < 1 /\ bearish_cross(e)

\* lines 373-374
buysignal(c, e) ==
    c.buy_count < 2 /\ c.buy_count > 0 /\ c.sell_count < 1 /\ bullish_cross(e)
sellsignal(c, e) ==
    c.sell_count > 0 /\ c.sell_count < 2 /\ c.buy_count < 1 /\ bearish_cross(e)

\* line 379, evaluated only when use_stoch_confirmation is set
stoch_of_call(prices) ==
    IF cfg.use_stoch_confirmation THEN StochOf[prices] ELSE NoStoch

\* lines 386-387: prev_state.get("stoch_rsi", {"k": k, "d": d}) is subscripted.
\* A stored state always has the key, so the default is used only for an
\* asset that has no stored state; a stored None cannot be subscripted.
prev_stoch_raises(states, asset, stoch) ==
    /\ stoch # NoStoch
    /\ has_state(states, asset)
    /\ states[asset].stoch_rsi = NoStoch

prev_stoch(states, asset, stoch) ==
    IF has_state(states, asset) THEN states[asset].stoch_rsi ELSE stoch

\* lines 389-390
k_cross_up(prev, stoch) ==
    /\ RLe(prev.k, prev.d)
    /\ RGt(stoch.k, stoch.d)
    /\ (RLt(stoch.k, R(stoch_middle_band)) \/ RLt(stoch.d, R(stoch_middle_band)))
k_cross_down(prev, stoch) ==
    /\ RGe(prev.k, prev.d)
    /\ RLt(stoch.k, stoch.d)
    /\ (RGt(stoch.k, R(stoch_middle_band)) \/ RGt(stoch.d, R(stoch_middle_band)))

\* lines 377-395
stoch_confirmation(states, asset, stoch, buy, sell) ==
    IF stoch = NoStoch THEN TRUE
    ELSE LET prev == prev_stoch(states, asset, stoch)
         IN  /\ ~(buy /\ ~k_cross_up(prev, stoch))
             /\ ~(sell /\ ~k_cross_down(prev, stoch))

\* lines 413-418 and 442-447
stop_loss_of(current_price, is_buy) ==
    IF ~cfg.use_stop_loss THEN None
    ELSE LET frac == RDiv(cfg.stop_loss_percent, R(100))
         IN  RMul(current_price,
                  IF is_buy THEN RSub(R(1), frac) ELSE RAdd(R(1), frac))

risk_of(current_price, stop_loss, is_buy) ==
    IF Truthy(stop_loss)
    THEN (IF is_buy THEN RSub(current_price, stop_loss)
          ELSE RSub(stop_loss, current_price))
    ELSE RMul(current_price, Norm(7, 100))

take_profit_of(current_price, stop_loss, is_buy) ==
    LET twice == RMul(risk_of(current_price, stop_loss, is_buy), R(2))
    IN  IF is_buy THEN RAdd(current_price, twice) ELSE RSub(current_price, twice)

\* lines 401-411 and 430-440
emit_rationale(is_buy, stoch) ==
    <<IF is_buy THEN "BUY" ELSE "SELL">>
    \o (IF cfg.ma_filter_type # "None"
        THEN <<IF is_buy THEN "Price above MA" ELSE "Price below MA">> ELSE <<>>)
    \o (IF cfg.use_stoch_confirmation /\ stoch # NoStoch
        THEN <<"StochRSI K/D crossover confirmed">> ELSE <<>>)

\* filtered_rationale that names the stochastic gate whenever a signal is
\* filtered
filtered_rationale_both(is_buy, ma_filter_pass, stoch_ok) ==
    <<IF is_buy THEN "BUY signal filtered out" ELSE "SELL signal filtered out">>
    \o (IF ~ma_filter_pass
        THEN <<IF is_buy THEN "price below MA" ELSE "price above MA">> ELSE <<>>)
    \o <<"StochRSI not confirmed">>

\* lines 420-425 and 449-454
filtered_rationale(is_buy, ma_filter_pass, stoch_ok) ==
    <<IF is_buy THEN "BUY signal filtered out" ELSE "SELL signal filtered out">>
    \o (IF ~ma_filter_pass
        THEN <<IF is_buy THEN "price below MA" ELSE "price above MA">> ELSE <<>>)
    \o (IF ~stoch_ok THEN <<"StochRSI not confirmed">> ELSE <<>>)

\* lines 456-462
trend_rationale(e) ==
    IF RGt(e.fast_cur, e.slow_cur) THEN <<"HOLD: Bullish trend">>
    ELSE IF RLt(e.fast_cur, e.slow_cur) THEN <<"HOLD: Bearish trend">>
    ELSE <<"HOLD: EMAs aligned">>

\* lines 401-418 and 430-447: the signal passed both gates
emit(base, current_price, is_buy, stop_loss) ==
    [base EXCEPT
        !.signal = IF is_buy THEN "buy" ELSE "sell",
        !.rationale = emit_rationale(is_buy, base.stoch_rsi),
        !.stop_loss = stop_loss,
        !.take_profit = take_profit_of(current_price, stop_loss, is_buy)]

\* lines 398-454: a crossover candidate meets the two gates
candidate(base, current_price, is_buy, ma_filter_pass, stoch_ok) ==
    IF ma_filter_pass /\ stoch_ok
    THEN emit(base, current_price, is_buy, stop_loss_of(current_price, is_buy))
    ELSE [base EXCEPT
            !.rationale = filtered_rationale(is_buy, ma_filter_pass, stoch_ok)]

\* lines 349-350 and 381: the fields set before the gates
base_result(e, stoch) ==
    [EmptyResult EXCEPT !.fast_ema = e.fast_cur, !.slow_ema = e.slow_cur,
                        !.stoch_rsi = stoch]

\* lines 397-462: the result of an evaluation that got past the stochastic step
gate(base, current_price, prices, e, buy, sell, stoch_ok) ==
    IF buy \/ sell
    THEN candidate(base, current_price, buy,
                   check_ma_filter(current_price, prices, buy), stoch_ok)
    ELSE [base EXCEPT !.rationale = trend_rationale(e)]

\* lines 465-471: result always has the key "stoch_rsi", so .get never
\* falls back to the previously stored value
new_state(c, res) ==
    [buy_count |-> c.buy_count, sell_count |-> c.sell_count,
     fast_ema |-> res.fast_ema, slow_ema |-> res.slow_ema,
     stoch_rsi |-> res.stoch_rsi]

\* what a raised exception leaves in place of a returned dict
NoResult == [EmptyResult EXCEPT !.signal = "none"]

\* the outcome of a call:
\*   outcome  "returned" or "raised"
\*   result   the returned dict
\*   written  whether line 465 was reached
\*   state    the state it stores for the asset
early_return(rationale) ==
    [outcome |-> "returned", written |-> FALSE, state |-> <<>>,
     result |-> [EmptyResult EXCEPT !.rationale = rationale]]

raised == [outcome |-> "raised", written |-> FALSE, state |-> <<>>,
           result |-> NoResult]

\* lines 464-473
finish(c, res) ==
    [outcome |-> "returned", written |-> TRUE, state |-> new_state(c, res),
     result |-> res]

\* lines 376-462
confirm_and_gate(states, asset, current_price, prices, e, c, buy, sell, stoch) ==
    IF prev_stoch_raises(states, asset, stoch) THEN raised
    ELSE finish(c, gate(base_result(e, stoch), current_price, prices, e, buy, sell,
                        stoch_confirmation(states, asset, stoch, buy, sell)))

\* lines 372-374
signals(states, asset, current_price, prices, e, c) ==
    confirm_and_gate(states, asset, current_price, prices, e, c,
                     buysignal(c, e), sellsignal(c, e), stoch_of_call(prices))

\* lines 345-370
evaluate(states, asset, current_price, prices, e) ==
    IF ema_unavailable(e) THEN early_return(<<"Unable to calculate EMAs">>)
    ELSE signals(states, asset, current_price, prices, e,
                 update_counts(prev_buy_count(states, asset),
                               prev_sell_count(states, asset), e))

\* analyze as a function of the stored states and its arguments
analyze(states, asset, current_price, prices, taapi) ==
    IF insufficient_data(prices) THEN early_return(<<"Insufficient price data">>)
    ELSE evaluate(states, asset, current_price, prices, ema_values(prices, taapi))

\* store that writes the state under every asset
store_all(states, asset, out) ==
    IF out.written THEN [x \in Assets |-> out.state] ELSE states

store(states, asset, out) ==
    IF out.written
    THEN [x \in DOMAIN states \cup {asset} |->
            IF x = asset THEN out.state ELSE states[x]]
    ELSE states

(***************************************************************************)
(* MarketMakingStrategy.                                                   *)
(***************************************************************************)
\* Python None where a signal string is expected
NoSignal == "None"

\* the largest num_levels and the last clock reading of the model
MaxLevels == 3
MaxTime == 3
\* how often one plan is passed to adjust_for_inventory
MaxAdjust == 1

\* the constructor's defaults, refresh_interval_sec scaled to the clock of
\* the model; float_bits is the precision of the floating point arithmetic
\* the instance computes with, 0 standing for exact arithmetic
DefaultMMConfig ==
    [spread_bps |-> 10, order_size_usd |-> R(100), num_levels |-> 3,
     level_spacing_bps |-> 5, refresh_interval_sec |-> 2,
     skew_on_signal |-> TRUE, skew_amount |-> Norm(3, 10), float_bits |-> 0]

\* the instances the quote model constructs
MMConfigs ==
    {[DefaultMMConfig EXCEPT !.num_levels = n, !.level_spacing_bps = sp,
                             !.skew_on_signal = sk] :
        n \in 0..MaxLevels, sp \in {0, 5}, sk \in BOOLEAN}

\* the instances the refresh model constructs
RefreshConfigs ==
    {[DefaultMMConfig EXCEPT !.refresh_interval_sec = i] : i \in 0..2}

MidPrices == {R(100), R(2)}
\* trader_xo_signal: absent, or a dict with this signal
XoSignals == {NoSignal, "buy", "sell", "hold"}
\* (current_position, max_position), in tenths
Positions10 == {-6, -3, 3, 4, 6}
MaxPositions10 == {0, 10}

\* a / b brought between 2^(bits-1) and 2^bits by powers of two:
\* a / b * 2^e is the value that went in
RECURSIVE float_scale(_, _, _, _)
float_scale(a, b, e, bits) ==
    IF a < (2 ^ (bits - 1)) * b THEN float_scale(2 * a, b, e - 1, bits)
    ELSE IF a >= (2 ^ bits) * b THEN float_scale(a, 2 * b, e + 1, bits)
    ELSE [a |-> a, b |-> b, e |-> e]

\* a / b rounded to the nearest integer, ties to even
round_half_even(a, b) ==
    IF 2 * (a % b) > b \/ (2 * (a % b) = b /\ (a \div b) % 2 = 1)
    THEN (a \div b) + 1
    ELSE a \div b

\* the nearest floating point number with a mantissa of so many bits
float_round(x, bits) ==
    LET f == float_scale(Abs(x.n), x.d, 0, bits)
        m == round_half_even(f.a, f.b) * (IF x.n < 0 THEN -1 ELSE 1)
    IN  IF f.e < 0 THEN Norm(m, 2 ^ (0 - f.e)) ELSE Norm(m * (2 ^ f.e), 1)

\* the result of one floating point operation whose exact result is x
Fl(x) ==
    IF mm_cfg.float_bits = 0 \/ IsNone(x) \/ x.n = 0 THEN x
    ELSE float_round(x, mm_cfg.float_bits)

\* sum(...) of floats: added from the left, starting at 0
RECURSIVE float_sum(_)
float_sum(s) ==
    IF s = <<>> THEN R(0)
    ELSE Fl(RAdd(float_sum(Prefix(s, Len(s) - 1)), s[Len(s)]))

\* should_refresh with a strict comparison
should_refresh_strict(asset) ==
    IF asset \notin DOMAIN last_refresh THEN TRUE
    ELSE now - last_refresh[asset] > mm_cfg.refresh_interval_sec

\* lines 65-79
should_refresh(asset) ==
    IF asset \notin DOMAIN last_refresh THEN TRUE
    ELSE now - last_refresh[asset] >= mm_cfg.refresh_interval_sec

\* bid_size_multiplier that skews without looking at skew_on_signal
bid_size_multiplier_always(directional_signal) ==
    IF directional_signal = "buy" THEN RAdd(R(1), mm_cfg.skew_amount)
    ELSE IF directional_signal = "sell" THEN RSub(R(1), mm_cfg.skew_amount)
    ELSE R(1)

\* lines 100-111
bid_size_multiplier(directional_signal) ==
    IF mm_cfg.skew_on_signal /\ directional_signal # NoSignal
    THEN IF directional_signal = "buy"
         THEN Fl(RAdd(R(1), Fl(mm_cfg.skew_amount)))
         ELSE IF directional_signal = "sell"
         THEN Fl(RSub(R(1), Fl(mm_cfg.skew_amount)))
         ELSE R(1)
    ELSE R(1)

ask_size_multiplier(directional_signal) ==
    IF mm_cfg.skew_on_signal /\ directional_signal # NoSignal
    THEN IF directional_signal = "buy"
         THEN Fl(RSub(R(1), Fl(mm_cfg.skew_amount)))
         ELSE IF directional_signal = "sell"
         THEN Fl(RAdd(R(1), Fl(mm_cfg.skew_amount)))
         ELSE R(1)
    ELSE R(1)

\* level_offset that forgets the level
level_offset_flat(level) == mm_cfg.spread_bps

\* line 115
level_offset(level) == mm_cfg.spread_bps + (level * mm_cfg.level_spacing_bps)

\* bid_price on the wrong side of the mid price
bid_price_above(mid_price, offset_bps) ==
    RMul(mid_price, RAdd(R(1), Norm(offset_bps, 10000)))

\* line 118
bid_price(mid_price, offset_bps) ==
    Fl(RMul(mid_price, Fl(RSub(R(1), Fl(Norm(offset_bps, 10000))))))

\* line 131
ask_price(mid_price, offset_bps) ==
    Fl(RMul(mid_price, Fl(RAdd(R(1), Fl(Norm(offset_bps, 10000))))))

\* lines 119-128 and 132-141: one appended level
quote_level(price, size_usd, mid_price, level) ==
    [price |-> price, size |-> Fl(RDiv(size_usd, mid_price)),
     size_usd |-> size_usd,
     level |-> level, offset_bps |-> level_offset(level)]

\* lines 113-141: the levels of one side
bid_levels(mid_price, size_usd) ==
    [i \in 1..mm_cfg.num_levels |->
        quote_level(bid_price(mid_price, level_offset(i - 1)), size_usd,
                    mid_price, i - 1)]

ask_levels(mid_price, size_usd) ==
    [i \in 1..mm_cfg.num_levels |->
        quote_level(ask_price(mid_price, level_offset(i - 1)), size_usd,
                    mid_price, i - 1)]

\* lines 81-148
calculate_order_levels(mid_price, directional_signal) ==
    [bids |-> bid_levels(mid_price,
                         Fl(RMul(mm_cfg.order_size_usd,
                                 bid_size_multiplier(directional_signal)))),
     asks |-> ask_levels(mid_price,
                         Fl(RMul(mm_cfg.order_size_usd,
                                 ask_size_multiplier(directional_signal)))),
     mid_price |-> mid_price,
     directional_signal |-> directional_signal]

\* lines 168-170
directional_of(trader_xo_signal) ==
    IF trader_xo_signal \in {"buy", "sell"} THEN trader_xo_signal ELSE NoSignal

\* lines 191-207
build_rationale(directional_signal) ==
    <<"Market making">>
    \o (IF directional_signal # NoSignal
        THEN <<IF directional_signal = "buy"
               THEN "Directional bias: BUY (skewing bid sizes)"
               ELSE "Directional bias: SELL (skewing ask sizes)">>
        ELSE <<"Neutral (no directional signal)">>)

\* sum(x["size_usd"] for x in side)
total_size_usd(side) == float_sum([i \in DOMAIN side |-> side[i].size_usd])

\* trader_xo_context when combine_with_trader_xo has not added the key
NoContext ==
    [signal |-> "none", rationale |-> <<>>, fast_ema |-> None,
     slow_ema |-> None, stop_loss |-> None, take_profit |-> None]

\* lines 176-187; inventory_adjustment "", trader_xo_context NoContext and
\* combined_rationale <<>> are the keys being absent
plan_of(asset, lv) ==
    [asset |-> asset, timestamp |-> now, mid_price |-> lv.mid_price,
     directional_signal |-> lv.directional_signal,
     bids |-> lv.bids, asks |-> lv.asks,
     total_bid_size_usd |-> total_size_usd(lv.bids),
     total_ask_size_usd |-> total_size_usd(lv.asks),
     should_refresh |-> should_refresh(asset),
     rationale |-> build_rationale(lv.directional_signal),
     inventory_adjustment |-> "",
     trader_xo_context |-> NoContext,
     combined_rationale |-> <<>>]

\* lines 150-189
generate_market_making_plan(asset, mid_price, trader_xo_signal) ==
    plan_of(asset, calculate_order_levels(mid_price,
                                          directional_of(trader_xo_signal)))

\* the analysis results combine_with_trader_xo is given
XoAnalyses ==
    {[EmptyResult EXCEPT !.signal = sig, !.rationale = r,
                         !.fast_ema = R(2), !.slow_ema = R(1)] :
        sig \in {"buy", "sell", "hold"}, r \in {<<>>, <<"Bullish crossover">>}}

\* lines 236-243
trader_xo_context_of(trader_xo_analysis) ==
    [signal |-> trader_xo_analysis.signal,
     rationale |-> trader_xo_analysis.rationale,
     fast_ema |-> trader_xo_analysis.fast_ema,
     slow_ema |-> trader_xo_analysis.slow_ema,
     stop_loss |-> trader_xo_analysis.stop_loss,
     take_profit |-> trader_xo_analysis.take_profit]

\* lines 246-250
combined_rationale_of(rationale, trader_xo_analysis) ==
    IF trader_xo_analysis.rationale # <<>>
    THEN rationale \o <<"Trader XO">> \o trader_xo_analysis.rationale
    ELSE rationale

\* lines 236-252: the context and the rationale added to the plan
with_context(mm_plan, trader_xo_analysis) ==
    [mm_plan EXCEPT
        !.trader_xo_context = trader_xo_context_of(trader_xo_analysis),
        !.combined_rationale =
            combined_rationale_of(mm_plan.rationale, trader_xo_analysis)]

\* lines 213-252
combine_with_trader_xo(asset, mid_price, trader_xo_analysis) ==
    with_context(generate_market_making_plan(asset, mid_price,
                                             trader_xo_analysis.signal),
                 trader_xo_analysis)

\* needs_adjustment with the boundary on the wrong side
needs_adjustment_at_boundary(inventory_ratio) ==
    RGe(RAbs(inventory_ratio), Norm(3, 10))

\* line 280
needs_adjustment(inventory_ratio) ==
    RGt(RAbs(inventory_ratio), Fl(Norm(3, 10)))

\* adjustment without the cap
adjustment_uncapped(inventory_ratio) == RAbs(inventory_ratio)

\* line 281
adjustment(inventory_ratio) == RMin2(RAbs(inventory_ratio), Norm(1, 2))

\* scaled that leaves size as it was
scaled_usd_only(side, factor) ==
    [i \in DOMAIN side |-> [side[i] EXCEPT !.size_usd = Fl(RMul(@, factor))]]

\* lines 285-290 and 296-301: size and size_usd of every level times factor
scaled(side, factor) ==
    [i \in DOMAIN side |->
        [side[i] EXCEPT !.size = Fl(RMul(@, factor)),
                        !.size_usd = Fl(RMul(@, factor))]]

\* lines 305-307
retotal(p) ==
    [p EXCEPT !.total_bid_size_usd = total_size_usd(p.bids),
              !.total_ask_size_usd = total_size_usd(p.asks)]

\* lines 283-303
rebalance(p, inventory_ratio, adj) ==
    IF RGt(inventory_ratio, R(0))
    THEN [p EXCEPT !.bids = scaled(@, Fl(RSub(R(1), adj))),
                   !.asks = scaled(@, Fl(RAdd(R(1), adj))),
                   !.inventory_adjustment = "Long position"]
    ELSE [p EXCEPT !.bids = scaled(@, Fl(RAdd(R(1), adj))),
                   !.asks = scaled(@, Fl(RSub(R(1), adj))),
                   !.inventory_adjustment = "Short position"]

\* lines 275-309
adjust_by_ratio(p, inventory_ratio) ==
    IF needs_adjustment(inventory_ratio)
    THEN retotal(rebalance(p, inventory_ratio, adjustment(inventory_ratio)))
    ELSE p

\* lines 254-309
adjust_for_inventory(p, current_position, max_position) ==
    IF max_position = R(0) THEN p
    ELSE adjust_by_ratio(p, Fl(RDiv(current_position, max_position)))

\* lines 209-211
mark_refreshed(asset) ==
    [x \in DOMAIN last_refresh \cup {asset} |->
        IF x = asset THEN now ELSE last_refresh[x]]

NoLevels ==
    [bids |-> <<>>, asks |-> <<>>, mid_price |-> None,
     directional_signal |-> NoSignal]

NoPlan ==
    [asset |-> "", timestamp |-> 0, mid_price |-> None,
     directional_signal |-> NoSignal, bids |-> <<>>, asks |-> <<>>,
     total_bid_size_usd |-> None, total_ask_size_usd |-> None,
     should_refresh |-> FALSE, rationale |-> <<>>, inventory_adjustment |-> "",
     trader_xo_context |-> NoContext, combined_rationale |-> <<>>]

NoMMCall ==
    [op |-> "none", asset |-> "", mid_price |-> None, signal |-> NoSignal,
     current_position |-> None, max_position |-> None, adjusts |-> 0]

\* one MarketMakingStrategy instance with nothing refreshed and no plan made
InitMMIdle ==
    /\ last_refresh = <<>>
    /\ now = 0
    /\ levels = NoLevels
    /\ plan = NoPlan
    /\ mm_call = NoMMCall

(***************************************************************************)
(* Actions.                                                                *)
(***************************************************************************)
NoCall ==
    [asset |-> "", current_price |-> None, prices |-> <<>>, taapi |-> NoTaapi,
     outcome |-> "none"]

\* the workers that may call analyze at the same time
Workers == {1, 2}

NoFlight ==
    [active |-> FALSE, asset |-> "", current_price |-> None, prices |-> <<>>,
     seen |-> <<>>, overlapped |-> FALSE]

NoDone == [bar |-> 0, signal |-> "none", overlapped |-> FALSE]

InitRaceIdle ==
    /\ inflight = [w \in Workers |-> NoFlight]
    /\ done = [w \in Workers |-> NoDone]

\* no generate_trade_decisions call yet
NoDecisions ==
    [outcome |-> "none", assets |-> <<>>, market_data |-> <<>>,
     records |-> <<>>, analyzed |-> <<>>]

\* no indicator function called directly yet
NoIndCall ==
    [fn |-> "none", prices |-> <<>>, period |-> 0, value |-> None,
     stoch |-> NoStoch]

\* no LighterAPI call yet; calls counts the calls made
NoDexCall ==
    [op |-> "none", asset |-> "", quote |-> 0, outcome |-> "none",
     price |-> None, placed |-> {}, calls |-> 0]

InitAppIdle ==
    /\ decisions = NoDecisions
    /\ ind_call = NoIndCall
    /\ book = {}
    /\ dex_call = NoDexCall

\* a TraderXOStrategy instance before its first call
NoCandidates == [a \in Assets |-> [buy |-> FALSE, sell |-> FALSE]]

InitXOIdle ==
    /\ prev_states = <<>>
    /\ hist = [a \in Assets |-> <<>>]
    /\ result = NoResult
    /\ call = NoCall
    /\ bar_signals = <<>>
    /\ candidates = NoCandidates

Init ==
    /\ cfg \in Configs
    /\ InitXOIdle
    /\ InitRaceIdle
    /\ InitAppIdle
    /\ mm_cfg = DefaultMMConfig
    /\ InitMMIdle

counts_below_bound(a) ==
    has_state(prev_states, a) =>
        /\ prev_states[a].buy_count < MaxCount
        /\ prev_states[a].sell_count < MaxCount

\* the market data collaborator delivers one more bar; the caller has
\* consumed the dict the last call returned
NewBar(a, p) ==
    /\ Len(hist[a]) < MaxLen
    /\ hist' = [hist EXCEPT ![a] = Append(@, p)]
    /\ result' = NoResult
    /\ call' = NoCall
    /\ UNCHANGED <<cfg, prev_states, bar_signals, candidates, race_vars, mm_vars, app_vars>>

\* what the driver logs for a call
logged(out) == IF out.outcome = "raised" THEN "raise" ELSE out.result.signal

\* lines 373-374: the side whose crossover signal the evaluation of a call
\* that read states computed, "none" when it computed neither or returned
\* before line 373
candidate_side(states, a, prices, taapi) ==
    IF insufficient_data(prices) \/ ema_unavailable(ema_values(prices, taapi))
    THEN "none"
    ELSE IF buysignal(update_counts(prev_buy_count(states, a),
                                    prev_sell_count(states, a),
                                    ema_values(prices, taapi)),
                      ema_values(prices, taapi))
    THEN "buy"
    ELSE IF sellsignal(update_counts(prev_buy_count(states, a),
                                     prev_sell_count(states, a),
                                     ema_values(prices, taapi)),
                       ema_values(prices, taapi))
    THEN "sell"
    ELSE "none"

\* the evaluation ran to line 465 with the fast EMA below (above) the slow
completed_bearish(out) ==
    out.written /\ RLt(out.state.fast_ema, out.state.slow_ema)
completed_bullish(out) ==
    out.written /\ RGt(out.state.fast_ema, out.state.slow_ema)

\* the candidates on record after a call that computed side and ended as out
recorded(was, side, out) ==
    [buy |-> IF side = "buy" THEN TRUE
             ELSE IF completed_bearish(out) THEN FALSE ELSE was.buy,
     sell |-> IF side = "sell" THEN TRUE
              ELSE IF completed_bullish(out) THEN FALSE ELSE was.sell]

\* the effect of a call that ended as out; log names the driver's record
\* keeping: "bar" collects the signals, "calls" the candidates
returns(a, current_price, prices, taapi, out, log) ==
    /\ prev_states' = store(prev_states, a, out)
    /\ candidates' =
         IF log = "calls"
         THEN [candidates EXCEPT ![a] =
                 recorded(@, candidate_side(prev_states, a, prices, taapi), out)]
         ELSE candidates
    /\ result' = out.result
    /\ call' = [asset |-> a, current_price |-> current_price,
                prices |-> prices, taapi |-> taapi,
                outcome |-> out.outcome]
    /\ bar_signals' = IF log = "bar" THEN Append(bar_signals, logged(out))
                      ELSE bar_signals

do_analyze(a, current_price, prices, taapi, log) ==
    returns(a, current_price, prices, taapi,
            analyze(prev_states, a, current_price, prices, taapi), log)

\* analyze(a, current_price, prices, taapi), where prices is the asset's
\* history, or empty when the caller has no history at hand
Analyze(a, current_price, prices, taapi) ==
    /\ counts_below_bound(a)
    /\ do_analyze(a, current_price, prices, taapi, "none")
    /\ UNCHANGED <<cfg, hist, race_vars, mm_vars, app_vars>>

\* the same call made by a driver that serializes its calls and keeps the
\* record of the crossover candidates
SerialAnalyze(a, current_price, prices, taapi) ==
    /\ counts_below_bound(a)
    /\ do_analyze(a, current_price, prices, taapi, "calls")
    /\ UNCHANGED <<cfg, hist, race_vars, mm_vars, app_vars>>

\* the per-bar driver: a new bar arrives and analyze is called once on the
\* history that ends with it, the bar's price being the current price
BarAnalyze(a, p) ==
    /\ Len(hist[a]) < MaxLen
    /\ hist' = [hist EXCEPT ![a] = Append(@, p)]
    /\ do_analyze(a, p, Append(hist[a], p), NoTaapi, "bar")
    /\ UNCHANGED <<cfg, race_vars, mm_vars, app_vars>>

(***************************************************************************)
(* Spec: one instance, local indicator computation, any interleaving of    *)
(* new bars and analyze calls.                                             *)
(***************************************************************************)
Next ==
    \/ \E p \in Prices : NewBar("BTC", p)
    \/ \E cp \in Prices, prices \in {<<>>, hist["BTC"]} :
         Analyze("BTC", cp, prices, NoTaapi)

Spec == Init /\ [][Next]_vars

(***************************************************************************)
(* SpecSerial: as Spec, the driver keeping the record of the candidates.   *)
(***************************************************************************)
NextSerial ==
    \/ \E p \in Prices : NewBar("BTC", p)
    \/ \E cp \in Prices, prices \in {<<>>, hist["BTC"]} :
         SerialAnalyze("BTC", cp, prices, NoTaapi)

SpecSerial == Init /\ [][NextSerial]_vars

(***************************************************************************)
(* SpecTaapi: as Spec, with every kind of external indicator source.       *)
(***************************************************************************)
InitTaapi ==
    /\ Init
    /\ cfg \in TaapiConfigs

\* bars enough for the local fallback to see a crossover and a bar after it
MaxTaapiLen == slow_ema_period + 3

NextTaapi ==
    \/ \E p \in Prices : Len(hist["BTC"]) < MaxTaapiLen /\ NewBar("BTC", p)
    \/ \E cp \in Prices, t \in TaapiClients :
         Analyze("BTC", cp, hist["BTC"], t)

SpecTaapi == InitTaapi /\ [][NextTaapi]_vars

(***************************************************************************)
(* SpecTaapiFail: as SpecTaapi, every external source failing.             *)
(***************************************************************************)
FailingClients == {t \in TaapiClients : t.kind # "data"}

NextTaapiFail ==
    \/ \E p \in Prices : NewBar("BTC", p)
    \/ \E cp \in Prices, t \in FailingClients :
         Analyze("BTC", cp, hist["BTC"], t)

SpecTaapiFail == InitTaapi /\ [][NextTaapiFail]_vars

(***************************************************************************)
(* SpecBars: one instance, analyze called exactly once per bar.            *)
(***************************************************************************)
NextBars ==
    \E p \in BarPrices :
        /\ Append(hist["BTC"], p) \in BarHistories
        /\ BarAnalyze("BTC", p)

SpecBars == Init /\ [][NextBars]_vars

(***************************************************************************)
(* SpecTouch: as SpecBars, on the histories whose EMAs can meet again.     *)
(***************************************************************************)
NextTouch ==
    \E p \in TouchPrices :
        /\ Append(hist["BTC"], p) \in TouchHistories
        /\ BarAnalyze("BTC", p)

SpecTouch == Init /\ [][NextTouch]_vars

(***************************************************************************)
(* SpecWindow: as Spec without MA filter, the caller passing either the    *)
(* whole history or only its most recent slow_ema_period + 1 prices.       *)
(***************************************************************************)
InitWindow ==
    /\ Init
    /\ cfg \in TaapiConfigs

Windows(h) ==
    {h, IF Len(h) > slow_ema_period + 1 THEN LastN(h, slow_ema_period + 1) ELSE h}

NextWindow ==
    \/ \E p \in Prices : NewBar("BTC", p)
    \/ \E cp \in Prices, prices \in Windows(hist["BTC"]) :
         Analyze("BTC", cp, prices, NoTaapi)

SpecWindow == InitWindow /\ [][NextWindow]_vars

(***************************************************************************)
(* MarketMakingStrategy calls.                                             *)
(***************************************************************************)
\* generate_market_making_plan marking the asset refreshed as well
GeneratePlanMarking(a, mid_price, trader_xo_signal) ==
    /\ levels' = calculate_order_levels(mid_price, directional_of(trader_xo_signal))
    /\ plan' = generate_market_making_plan(a, mid_price, trader_xo_signal)
    /\ last_refresh' = mark_refreshed(a)
    /\ mm_call' = [NoMMCall EXCEPT !.op = "generate_market_making_plan",
                                   !.asset = a,
                                   !.mid_price = mid_price,
                                   !.signal = trader_xo_signal]
    /\ UNCHANGED <<xo_vars, race_vars, app_vars, mm_cfg, now>>

CalculateOrderLevels(mid_price, directional_signal) ==
    /\ levels' = calculate_order_levels(mid_price, directional_signal)
    /\ mm_call' = [NoMMCall EXCEPT !.op = "calculate_order_levels",
                                   !.mid_price = mid_price,
                                   !.signal = directional_signal,
                                   !.adjusts = mm_call.adjusts]
    /\ UNCHANGED <<xo_vars, race_vars, app_vars, mm_cfg, last_refresh, now, plan>>

GeneratePlan(a, mid_price, trader_xo_signal) ==
    /\ levels' = calculate_order_levels(mid_price, directional_of(trader_xo_signal))
    /\ plan' = generate_market_making_plan(a, mid_price, trader_xo_signal)
    /\ mm_call' = [NoMMCall EXCEPT !.op = "generate_market_making_plan",
                                   !.asset = a,
                                   !.mid_price = mid_price,
                                   !.signal = trader_xo_signal]
    /\ UNCHANGED <<xo_vars, race_vars, app_vars, mm_cfg, last_refresh, now>>

CombineWithTraderXO(a, mid_price, trader_xo_analysis) ==
    /\ levels' = calculate_order_levels(mid_price,
                                        directional_of(trader_xo_analysis.signal))
    /\ plan' = combine_with_trader_xo(a, mid_price, trader_xo_analysis)
    /\ mm_call' = [NoMMCall EXCEPT !.op = "combine_with_trader_xo",
                                   !.asset = a,
                                   !.mid_price = mid_price,
                                   !.signal = trader_xo_analysis.signal]
    /\ UNCHANGED <<xo_vars, race_vars, app_vars, mm_cfg, last_refresh, now>>

\* should_refresh called by itself: it returns a value and changes nothing
ShouldRefresh(a) ==
    /\ mm_call' = [NoMMCall EXCEPT !.op = "should_refresh", !.asset = a,
                                   !.adjusts = mm_call.adjusts]
    /\ UNCHANGED <<xo_vars, race_vars, app_vars, mm_cfg, last_refresh, now, levels, plan>>

\* adjust_for_inventory on the plan the caller holds; the plan is changed in
\* place
AdjustForInventory(current_position, max_position) ==
    /\ plan # NoPlan
    /\ mm_call.adjusts < MaxAdjust
    /\ plan' = adjust_for_inventory(plan, current_position, max_position)
    /\ mm_call' = [NoMMCall EXCEPT !.op = "adjust_for_inventory",
                                   !.asset = plan.asset,
                                   !.current_position = current_position,
                                   !.max_position = max_position,
                                   !.adjusts = mm_call.adjusts + 1]
    /\ UNCHANGED <<xo_vars, race_vars, app_vars, mm_cfg, last_refresh, now, levels>>

MarkRefreshed(a) ==
    /\ last_refresh' = mark_refreshed(a)
    /\ mm_call' = [NoMMCall EXCEPT !.op = "mark_refreshed", !.asset = a,
                                   !.adjusts = mm_call.adjusts]
    /\ UNCHANGED <<xo_vars, race_vars, app_vars, mm_cfg, now, levels, plan>>

\* one second passes
Tick ==
    /\ now < MaxTime
    /\ now' = now + 1
    /\ mm_call' = [NoMMCall EXCEPT !.op = "tick", !.adjusts = mm_call.adjusts]
    /\ UNCHANGED <<xo_vars, race_vars, app_vars, mm_cfg, last_refresh, levels, plan>>

\* the TraderXOStrategy instance the market making models leave idle
DefaultXOConfig ==
    [ma_filter_type |-> "EMA", use_stoch_confirmation |-> FALSE,
     use_stop_loss |-> TRUE, stop_loss_percent |-> R(7)]

(***************************************************************************)
(* SpecQuote: one MarketMakingStrategy instance; plans and inventory       *)
(* adjustments.  SpecLevels: order levels, computed directly and through   *)
(* generate_market_making_plan.                                            *)
(***************************************************************************)
InitQuote ==
    /\ cfg = DefaultXOConfig
    /\ InitXOIdle
    /\ InitRaceIdle
    /\ InitAppIdle
    /\ mm_cfg \in MMConfigs
    /\ InitMMIdle

NextQuote ==
    \/ \E mid_price \in MidPrices, s \in XoSignals :
         GeneratePlan("BTC", mid_price, s)
    \/ \E cur \in Positions10, max \in MaxPositions10 :
         AdjustForInventory(Norm(cur, 10), Norm(max, 10))

SpecQuote == InitQuote /\ [][NextQuote]_vars

NextLevels ==
    \/ \E mid_price \in MidPrices, s \in XoSignals :
         CalculateOrderLevels(mid_price, s)
    \/ \E mid_price \in MidPrices, s \in XoSignals :
         GeneratePlan("BTC", mid_price, s)

SpecLevels == InitQuote /\ [][NextLevels]_vars

(***************************************************************************)
(* SpecFloat: as SpecQuote with combine_with_trader_xo, the instance       *)
(* computing in floating point arithmetic of 8 bits.                       *)
(***************************************************************************)
\* two levels a side, with and without the skew
FloatConfigs ==
    {[DefaultMMConfig EXCEPT !.num_levels = 2, !.skew_on_signal = sk,
                             !.float_bits = 8] : sk \in BOOLEAN}

InitFloat ==
    /\ cfg = DefaultXOConfig
    /\ InitXOIdle
    /\ InitRaceIdle
    /\ InitAppIdle
    /\ mm_cfg \in FloatConfigs
    /\ InitMMIdle

NextFloat ==
    \/ \E mid_price \in MidPrices, s \in XoSignals :
         GeneratePlan("BTC", mid_price, s)
    \/ \E mid_price \in MidPrices, x \in XoAnalyses :
         /\ x.rationale # <<>>
         /\ CombineWithTraderXO("BTC", mid_price, x)
    \/ \E cur \in Positions10, max \in MaxPositions10 :
         AdjustForInventory(Norm(cur, 10), Norm(max, 10))

SpecFloat == InitFloat /\ [][NextFloat]_vars

(***************************************************************************)
(* SpecRefresh: one MarketMakingStrategy instance, two assets, the clock.  *)
(***************************************************************************)
InitRefresh ==
    /\ cfg = DefaultXOConfig
    /\ InitXOIdle
    /\ InitRaceIdle
    /\ InitAppIdle
    /\ mm_cfg \in RefreshConfigs
    /\ InitMMIdle

NextRefresh ==
    \/ \E a \in Assets : MarkRefreshed(a)
    \/ Tick
    \/ \E a \in Assets : GeneratePlan(a, R(100), NoSignal)

SpecRefresh == InitRefresh /\ [][NextRefresh]_vars

(***************************************************************************)
(* SpecClock: every operation of one MarketMakingStrategy instance, two    *)
(* assets, the clock.                                                      *)
(***************************************************************************)
InitClock ==
    /\ cfg = DefaultXOConfig
    /\ InitXOIdle
    /\ InitRaceIdle
    /\ InitAppIdle
    /\ mm_cfg = [DefaultMMConfig EXCEPT !.refresh_interval_sec = 1]
    /\ InitMMIdle

NextClock ==
    \/ \E a \in Assets : MarkRefreshed(a)
    \/ Tick
    \/ \E a \in Assets : ShouldRefresh(a)
    \/ CalculateOrderLevels(R(100), "buy")
    \/ \E a \in Assets : GeneratePlan(a, R(100), NoSignal)
    \/ \E a \in Assets :
         CombineWithTraderXO(a, R(100), [EmptyResult EXCEPT !.signal = "buy"])
    \/ AdjustForInventory(Norm(6, 10), R(1))

SpecClock == InitClock /\ [][NextClock]_vars

(***************************************************************************)
(* SpecAssets: one TraderXOStrategy and one MarketMakingStrategy instance  *)
(* serving two assets, each with its own short history.                    *)
(***************************************************************************)
\* each history grows to the shortest length at which a crossover can be
\* evaluated and no further
MaxAssetLen == slow_ema_period + 1

InitAssets ==
    /\ cfg = [DefaultXOConfig EXCEPT !.ma_filter_type = "None"]
    /\ InitXOIdle
    /\ InitRaceIdle
    /\ InitAppIdle
    /\ mm_cfg = DefaultMMConfig
    /\ InitMMIdle

\* the price the caller passes as current_price: the latest bar's
last_price(h) == IF h = <<>> THEN R(1) ELSE h[Len(h)]

NextAssets ==
    \E a \in Assets :
        \/ \E p \in Prices : Len(hist[a]) < MaxAssetLen /\ NewBar(a, p)
        \/ Analyze(a, last_price(hist[a]), hist[a], NoTaapi)
        \/ MarkRefreshed(a)

SpecAssets == InitAssets /\ [][NextAssets]_vars

(***************************************************************************)
(* SpecRace: two workers calling analyze for one asset on one instance,    *)
(* each at most once per bar.  A call reads the stored state of its asset  *)
(* at line 357 and writes it at line 465; between the two it works on      *)
(* what it read.  done[w] keeps the bar and the signal of worker w's last   *)
(* call, and whether any call of w so far has overlapped another call.     *)
(***************************************************************************)
InitRace ==
    /\ cfg = [DefaultXOConfig EXCEPT !.ma_filter_type = "None"]
    /\ InitXOIdle
    /\ InitRaceIdle
    /\ InitAppIdle
    /\ mm_cfg = DefaultMMConfig
    /\ InitMMIdle

\* the call returns before it reads self.prev_states (lines 297-347)
returns_early(prices) ==
    insufficient_data(prices) \/ ema_unavailable(ema_values(prices, NoTaapi))

\* the other workers' calls that have read and not yet written
others_active(w) == \E v \in Workers \ {w} : inflight[v].active

\* lines 286-357: up to and including the read of the stored state
BeginAnalyze(w, a) ==
    /\ ~inflight[w].active
    /\ done[w].bar < Len(hist[a])
    /\ counts_below_bound(a)
    /\ IF returns_early(hist[a])
       THEN /\ returns(a, last_price(hist[a]), hist[a], NoTaapi,
                       analyze(prev_states, a, last_price(hist[a]), hist[a],
                               NoTaapi), "none")
            /\ done' = [done EXCEPT ![w] = [bar |-> Len(hist[a]),
                                            signal |-> "hold",
                                            overlapped |-> done[w].overlapped]]
            /\ UNCHANGED inflight
       ELSE /\ inflight' =
                 [v \in Workers |->
                    IF v = w
                    THEN [active |-> TRUE, asset |-> a,
                          current_price |-> last_price(hist[a]),
                          prices |-> hist[a], seen |-> prev_states,
                          overlapped |-> others_active(w)]
                    ELSE IF inflight[v].active
                    THEN [inflight[v] EXCEPT !.overlapped = TRUE]
                    ELSE inflight[v]]
            /\ UNCHANGED <<prev_states, result, call, bar_signals, candidates, done>>
    /\ UNCHANGED <<cfg, hist, mm_vars, app_vars>>

\* the effect of a call that read f.seen and ended as out
finishes(w, f, out) ==
    /\ returns(f.asset, f.current_price, f.prices, NoTaapi, out, "none")
    /\ done' = [done EXCEPT ![w] = [bar |-> Len(f.prices),
                                    signal |-> logged(out),
                                    overlapped |-> f.overlapped
                                                   \/ done[w].overlapped]]
    /\ inflight' = [inflight EXCEPT ![w] = NoFlight]

\* lines 358-473: the evaluation on what was read, and the write
EndAnalyze(w) ==
    /\ inflight[w].active
    /\ finishes(w, inflight[w],
                analyze(inflight[w].seen, inflight[w].asset,
                        inflight[w].current_price, inflight[w].prices, NoTaapi))
    /\ UNCHANGED <<cfg, hist, mm_vars, app_vars>>

\* bars enough for a crossover after the first bar the EMAs exist at
MaxRaceLen == slow_ema_period + 3

NextRace ==
    \/ \E p \in Prices : Len(hist["BTC"]) < MaxRaceLen /\ NewBar("BTC", p)
    \/ \E w \in Workers : BeginAnalyze(w, "BTC")
    \/ \E w \in Workers : EndAnalyze(w)

SpecRace == InitRace /\ [][NextRace]_vars

(***************************************************************************)
(* StrategyIntegration.generate_trade_decisions: one TraderXOStrategy      *)
(* instance asked about a list of assets; the market data of an asset is   *)
(* its history and the price of its latest bar, or lacks the price.        *)
(***************************************************************************)
\* the assets argument
AssetLists ==
    {<<>>, <<"BTC">>, <<"BTC", "ETH">>, <<"ETH", "BTC">>, <<"BTC", "BTC">>}

\* market_data with a current price for the assets in priced only
market_data_of(priced) ==
    [a \in Assets |->
        [current_price |-> IF a \in priced THEN last_price(hist[a]) ELSE None,
         price_history |-> hist[a]]]

\* line 99
lacks_data(data) == ~Truthy(data.current_price) \/ data.price_history = <<>>

\* lines 101-109; strategy "" is the key being absent
hold_decision(asset) ==
    [asset |-> asset, action |-> "hold", tp_price |-> None, sl_price |-> None,
     rationale |-> <<"Insufficient market data">>, strategy |-> ""]

\* lines 122-159
decision_of(asset, analysis) ==
    [asset |-> asset, action |-> analysis.signal,
     tp_price |-> analysis.take_profit, sl_price |-> analysis.stop_loss,
     rationale |-> analysis.rationale, strategy |-> "trader_xo"]

\* line 92: nothing decided yet, the strategy's states as they are
StartRun ==
    [outcome |-> "returned", records |-> <<>>, states |-> prev_states,
     analyzed |-> <<>>]

RECURSIVE decide_from(_, _, _)
RECURSIVE decide_after(_, _, _, _)

\* lines 94-119: the loop from the first asset of assets on
decide_from(assets, market_data, run) ==
    IF assets = <<>> THEN run
    ELSE IF lacks_data(market_data[Head(assets)])
    THEN decide_from(Tail(assets), market_data,
                     [run EXCEPT !.records = Append(@, hold_decision(Head(assets)))])
    ELSE decide_after(assets, market_data, run,
                      analyze(run.states, Head(assets),
                              market_data[Head(assets)].current_price,
                              market_data[Head(assets)].price_history, NoTaapi))

\* lines 113-164: analyze ended as out; an exception leaves the loop and the
\* function
decide_after(assets, market_data, run, out) ==
    IF out.outcome = "raised"
    THEN [run EXCEPT !.outcome = "raised", !.records = <<>>,
                     !.analyzed = Append(@, Head(assets))]
    ELSE decide_from(Tail(assets), market_data,
                     [run EXCEPT
                        !.records = Append(@, decision_of(Head(assets), out.result)),
                        !.states = store(run.states, Head(assets), out),
                        !.analyzed = Append(@, Head(assets))])

\* lines 59-166
generate_trade_decisions(assets, market_data) ==
    decide_from(assets, market_data, StartRun)

\* the effect of a call that ended as run
decisions_return(assets, market_data, run) ==
    /\ prev_states' = run.states
    /\ decisions' = [outcome |-> run.outcome, assets |-> assets,
                     market_data |-> market_data, records |-> run.records,
                     analyzed |-> run.analyzed]

GenerateTradeDecisions(assets, priced) ==
    /\ \A i \in DOMAIN assets : counts_below_bound(assets[i])
    /\ decisions_return(assets, market_data_of(priced),
                        generate_trade_decisions(assets, market_data_of(priced)))
    /\ result' = NoResult
    /\ call' = NoCall
    /\ UNCHANGED <<cfg, hist, bar_signals, candidates, race_vars, mm_vars, ind_call,
                   dex_vars>>

\* with and without stochastic confirmation
DecideConfigs ==
    {[DefaultXOConfig EXCEPT !.ma_filter_type = "None",
                             !.use_stoch_confirmation = sc] : sc \in BOOLEAN}

InitDecide ==
    /\ cfg \in DecideConfigs
    /\ InitXOIdle
    /\ InitRaceIdle
    /\ InitAppIdle
    /\ mm_cfg = DefaultMMConfig
    /\ InitMMIdle

\* histories grow to the first length at which Stochastic RSI has a value
MaxDecideLen == stoch_rsi_length + stoch_length + 1

\* the market data collaborator delivers one more bar; the caller has
\* consumed the decisions of the last round
DecideBar(a, p) ==
    /\ hist' = [hist EXCEPT ![a] = Append(@, p)]
    /\ result' = NoResult
    /\ call' = NoCall
    /\ decisions' = NoDecisions
    /\ UNCHANGED <<cfg, prev_states, bar_signals, candidates, race_vars, mm_vars, ind_call,
                   dex_vars>>

\* BTC moves between the price levels; ETH stays flat and has a shorter
\* history
NextDecide ==
    \/ \E p \in Prices : Len(hist["BTC"]) < MaxDecideLen /\ DecideBar("BTC", p)
    \/ Len(hist["ETH"]) < MaxAssetLen /\ DecideBar("ETH", R(1))
    \/ \E assets \in AssetLists, priced \in SUBSET Assets :
         GenerateTradeDecisions(assets, priced)

SpecDecide == InitDecide /\ [][NextDecide]_vars

(***************************************************************************)
(* SpecIndicators: the indicator functions called directly on a price      *)
(* sequence the caller holds.                                              *)
(***************************************************************************)
InitIndicators ==
    /\ cfg = DefaultXOConfig
    /\ prev_states = <<>>
    /\ \E h \in Histories : hist = [a \in Assets |-> IF a = "BTC" THEN h ELSE <<>>]
    /\ result = NoResult
    /\ call = NoCall
    /\ bar_signals = <<>>
    /\ candidates = NoCandidates
    /\ InitRaceIdle
    /\ InitAppIdle
    /\ mm_cfg = DefaultMMConfig
    /\ InitMMIdle

\* an indicator call returns; nothing of the instance changes
indicator_returns(fn, prices, period, value, stoch) ==
    /\ ind_call' = [fn |-> fn, prices |-> prices, period |-> period,
                    value |-> value, stoch |-> stoch]
    /\ UNCHANGED <<xo_vars, race_vars, mm_vars, decisions, dex_vars>>

CalculateEma(prices, period) ==
    indicator_returns("calculate_ema", prices, period,
                      calculate_ema(prices, period), NoStoch)

CalculateRsi(prices, period) ==
    indicator_returns("calculate_rsi", prices, period,
                      calculate_rsi(prices, period), NoStoch)

CalculateStochasticRsi(prices) ==
    indicator_returns("calculate_stochastic_rsi", prices, 0, None,
                      calculate_stochastic_rsi(prices))

NextIndicators ==
    \/ \E period \in Periods : CalculateEma(hist["BTC"], period)
    \/ CalculateRsi(hist["BTC"], stoch_rsi_length)
    \/ CalculateStochasticRsi(hist["BTC"])

SpecIndicators == InitIndicators /\ [][NextIndicators]_vars

(***************************************************************************)
(* LighterAPI: one client with an account, and the exchange behind it.     *)
(* Every contract call and every transaction can fail; which ones do is    *)
(* an input of the call.  Order amounts are not tracked.                   *)
(***************************************************************************)
\* how many LighterAPI calls the model makes
MaxDexCalls == 3

\* ORDER_BOOK_IDS (lines 71-77) has BTC; DOGE is not in it
DexAssets == {"BTC", "DOGE"}
Supported == {"BTC"}

\* getMidPrice: the call fails, or returns the mid price in base units
QuoteFails == -1
MidBases == {100000000, 2000000}
Quotes == MidBases \cup {QuoteFails}

\* line 149 and line 141: base units to price and back (int truncates)
base_to_price(price_base) == Norm(price_base, 1000000)
price_to_base(price) == (price.n * 1000000) \div price.d

\* get_current_price returning 0 where it raises
get_current_price_zero_on_failure(asset, quote) ==
    IF asset \notin Supported \/ quote = QuoteFails THEN R(0)
    ELSE base_to_price(quote)

\* lines 155-171: the price, or None when the lookup or the call raised
get_current_price(asset, quote) ==
    IF asset \notin Supported \/ quote = QuoteFails THEN None
    ELSE base_to_price(quote)

\* an order as the exchange holds it; gen is the call that placed it
order_of(asset, price, is_ask, level, gen) ==
    [coin |-> asset, is_ask |-> is_ask, price_base |-> price_to_base(price),
     level |-> level, gen |-> gen]

\* lines 347-385: the orders listed; an unsupported asset or a failing
\* getOrders call is logged and gives the empty list
get_open_orders(asset, list_ok) ==
    IF asset \in Supported /\ list_ok THEN {o \in book : o.coin = asset} ELSE {}

\* lines 325-345: what is left on the exchange; a cancel that raises is
\* logged and skipped
cancel_all_orders(asset, list_ok, cancel_failed) ==
    book \ (get_open_orders(asset, list_ok) \ cancel_failed)

\* the level indices of the market making calls, which are made with
\* num_levels = 1
DexLevels == 0..0

\* lines 417-485: the orders that reach the exchange; a placement that
\* raises is logged and skipped
place_market_making_orders(asset, mid_price, place_failed, gen) ==
    {order_of(asset,
              IF side THEN ask_price(mid_price, level_offset(level))
              ELSE bid_price(mid_price, level_offset(level)),
              side, level, gen) :
        level \in DexLevels, side \in BOOLEAN}
    \ place_failed

\* a call returns or raises; quote is what getMidPrice did during the call
dex_returns(op, asset, quote, outcome, price, placed) ==
    dex_call' = [op |-> op, asset |-> asset, quote |-> quote,
                 outcome |-> outcome, price |-> price, placed |-> placed,
                 calls |-> dex_call.calls + 1]

GetCurrentPrice(asset, quote) ==
    /\ dex_call.calls < MaxDexCalls
    /\ dex_returns("get_current_price", asset, quote,
                   IF get_current_price(asset, quote) = None THEN "raised"
                   ELSE "returned",
                   get_current_price(asset, quote), {})
    /\ UNCHANGED <<xo_vars, race_vars, mm_vars, decisions, ind_call, book>>

\* lines 173-242 after a price is known: the order, or nothing when the
\* transaction raised
place_limit_order(asset, price, is_ask, send_ok, gen) ==
    IF asset \in Supported /\ send_ok
    THEN {order_of(asset, price, is_ask, 0, gen)}
    ELSE {}

\* lines 244-280 without an explicit price: buy 0.1% above the mid price,
\* sell 0.1% below
buffered(mid_price, is_ask) ==
    RMul(mid_price, IF is_ask THEN Norm(999, 1000) ELSE Norm(1001, 1000))

\* place_buy_order / place_sell_order ended with these orders placed
order_placed(op, asset, quote, mid_price, placed) ==
    /\ dex_returns(op, asset, quote,
                   IF placed = {} THEN "raised" ELSE "returned",
                   mid_price, placed)
    /\ book' = book \cup placed

\* place_buy_order(asset, amount) and place_sell_order(asset, amount)
PlaceOrder(asset, is_ask, quote, send_ok) ==
    /\ dex_call.calls < MaxDexCalls
    /\ order_placed(IF is_ask THEN "place_sell_order" ELSE "place_buy_order",
                    asset, quote, get_current_price(asset, quote),
                    IF get_current_price(asset, quote) = None THEN {}
                    ELSE place_limit_order(
                            asset,
                            buffered(get_current_price(asset, quote), is_ask),
                            is_ask, send_ok, dex_call.calls + 1))
    /\ UNCHANGED <<xo_vars, race_vars, mm_vars, decisions, ind_call>>

\* lines 487-518: what refresh_market_making_orders leaves on the exchange
\* after cancelling, given the price (None: get_current_price raised)
refreshed(asset, quote, remaining, mid_price, place_failed) ==
    /\ dex_returns("refresh_market_making_orders", asset, quote,
                   IF mid_price = None THEN "raised" ELSE "returned",
                   mid_price,
                   IF mid_price = None THEN {}
                   ELSE place_market_making_orders(asset, mid_price,
                                                   place_failed,
                                                   dex_call.calls + 1))
    /\ book' = remaining
               \cup (IF mid_price = None THEN {}
                     ELSE place_market_making_orders(asset, mid_price,
                                                     place_failed,
                                                     dex_call.calls + 1))

RefreshMarketMakingOrders(asset, list_ok, cancel_failed, quote, place_failed) ==
    /\ dex_call.calls < MaxDexCalls
    /\ refreshed(asset, quote,
                 cancel_all_orders(asset, list_ok, cancel_failed),
                 get_current_price(asset, quote), place_failed)
    /\ UNCHANGED <<xo_vars, race_vars, mm_vars, decisions, ind_call>>

InitDex ==
    /\ cfg = DefaultXOConfig
    /\ InitXOIdle
    /\ InitRaceIdle
    /\ InitAppIdle
    /\ mm_cfg = DefaultMMConfig
    /\ InitMMIdle

\* the orders a refresh can fail to place: none, or the bid of level 0
PlaceFailures(asset, quote) ==
    {{}}
    \cup (IF get_current_price(asset, quote) = None THEN {}
          ELSE {{order_of(asset,
                          bid_price(get_current_price(asset, quote),
                                    level_offset(0)),
                          FALSE, 0, dex_call.calls + 1)}})

NextDex ==
    \/ \E asset \in DexAssets, quote \in Quotes : GetCurrentPrice(asset, quote)
    \/ \E asset \in DexAssets, is_ask \in BOOLEAN, quote \in Quotes,
          send_ok \in BOOLEAN :
         PlaceOrder(asset, is_ask, quote, send_ok)
    \/ \E asset \in DexAssets, list_ok \in BOOLEAN, quote \in Quotes :
         \E cancel_failed \in SUBSET {o \in book : o.coin = asset},
            place_failed \in PlaceFailures(asset, quote) :
           RefreshMarketMakingOrders(asset, list_ok, cancel_failed, quote,
                                     place_failed)

SpecDex == InitDex /\ [][NextDex]_vars

(***************************************************************************)
(* Properties.                                                             *)
(***************************************************************************)
Range(f) == {f[i] : i \in DOMAIN f}
Signals == {"buy", "sell", "hold"}
\* the last step was an analyze call that returned a dict
Returned == call.outcome = "returned"

\* C1: every stored per-asset state has non-negative counters that are
\* never both positive
C1_CountersExclusive ==
    \A a \in DOMAIN prev_states :
        /\ prev_states[a].buy_count >= 0
        /\ prev_states[a].sell_count >= 0
        /\ ~(prev_states[a].buy_count > 0 /\ prev_states[a].sell_count > 0)

\* a bearish streak of two evaluations, the last one fed by an external
\* indicator source
C1_Witness ==
    /\ Returned
    /\ call.taapi.kind = "data"
    /\ has_state(prev_states, "BTC")
    /\ prev_states["BTC"].sell_count = 2
    /\ prev_states["BTC"].buy_count = 0

\* C2: a returned 'buy' comes from an evaluation with a bullish cross that
\* left buy_count = 1 and sell_count = 0, a returned 'sell' from the mirrored
\* one, and every other returned signal is 'hold'
C2_SignalOnlyOnFreshCross ==
    Returned =>
        \/ result.signal = "hold"
        \/ /\ result.signal = "buy"
           /\ bullish_cross(ema_values(call.prices, call.taapi))
           /\ has_state(prev_states, call.asset)
           /\ prev_states[call.asset].buy_count = 1
           /\ prev_states[call.asset].sell_count = 0
        \/ /\ result.signal = "sell"
           /\ bearish_cross(ema_values(call.prices, call.taapi))
           /\ has_state(prev_states, call.asset)
           /\ prev_states[call.asset].sell_count = 1
           /\ prev_states[call.asset].buy_count = 0

C2_Witness ==
    /\ Returned
    /\ result.signal = "sell"
    /\ Len(call.prices) = MaxLen

\* the locally computed fast EMA crosses the slow EMA at bar i of h
CrossUpAt(h, i) ==
    /\ ~ema_unavailable(ema_values(Prefix(h, i), NoTaapi))
    /\ bullish_cross(ema_values(Prefix(h, i), NoTaapi))
CrossDownAt(h, i) ==
    /\ ~ema_unavailable(ema_values(Prefix(h, i), NoTaapi))
    /\ bearish_cross(ema_values(Prefix(h, i), NoTaapi))
CrossesUpThenDown(h) ==
    \E i \in 1..Len(h) : \E j \in (i + 1)..Len(h) :
        CrossUpAt(h, i) /\ CrossDownAt(h, j)

Positions(log, x) == {i \in 1..Len(log) : log[i] = x}

\* exactly one buy, later exactly one sell, hold everywhere else
OneBuyThenOneSell(log) ==
    /\ Cardinality(Positions(log, "buy")) = 1
    /\ Cardinality(Positions(log, "sell")) = 1
    /\ \A i \in Positions(log, "buy") : \A j \in Positions(log, "sell") : i < j
    /\ Range(log) \subseteq Signals

\* at most one buy and at most one sell, the buy first
AtMostOneBuyThenOneSell(log) ==
    /\ Cardinality(Positions(log, "buy")) <= 1
    /\ Cardinality(Positions(log, "sell")) <= 1
    /\ \A i \in Positions(log, "buy") : \A j \in Positions(log, "sell") : i < j

GatesOff == cfg.ma_filter_type = "None" /\ ~cfg.use_stoch_confirmation

C4_NeverRaises ==
    call.outcome # "none" => (Returned /\ result.signal \in Signals)

\* C5: a call with empty prices or fewer than max(fast, slow) prices returns
\* hold with the insufficient-data rationale and no stop_loss/take_profit,
\* and leaves self.prev_states as it was
C5_InsufficientDataStep ==
    (/\ call'.outcome # "none"
     /\ (call'.prices = <<>> \/ Len(call'.prices) < slow_ema_period))
    => /\ call'.outcome = "returned"
       /\ result'.signal = "hold"
       /\ result'.rationale = <<"Insufficient price data">>
       /\ result'.stop_loss = None
       /\ result'.take_profit = None
       /\ prev_states' = prev_states

C5_InsufficientDataIsHold == [][C5_InsufficientDataStep]_vars

\* a call with no prices for an asset that has a stored state
C5_Witness ==
    /\ Returned
    /\ call.prices = <<>>
    /\ has_state(prev_states, call.asset)
    /\ result.rationale = <<"Insufficient price data">>

\* C6: with use_stoch_confirmation, a buy (sell) is returned only when
\* Stochastic RSI was computed in the call and K crossed above (below) D
\* relative to the K/D stored before the call
C6_StochStep ==
    (cfg.use_stoch_confirmation /\ call'.outcome = "returned")
    => /\ result'.signal = "buy" =>
            /\ result'.stoch_rsi # NoStoch
            /\ has_state(prev_states, call'.asset)
            /\ prev_states[call'.asset].stoch_rsi # NoStoch
            /\ k_cross_up(prev_states[call'.asset].stoch_rsi, result'.stoch_rsi)
       /\ result'.signal = "sell" =>
            /\ result'.stoch_rsi # NoStoch
            /\ has_state(prev_states, call'.asset)
            /\ prev_states[call'.asset].stoch_rsi # NoStoch
            /\ k_cross_down(prev_states[call'.asset].stoch_rsi, result'.stoch_rsi)

C6_StochGate == [][C6_StochStep]_vars

\* the value of the configured moving average over prices
MaOf(prices) ==
    IF cfg.ma_filter_type = "EMA" THEN calculate_ema(prices, ma_filter_period)
    ELSE IF cfg.ma_filter_type = "SMA" THEN calculate_sma(prices, ma_filter_period)
    ELSE calculate_wma(prices, ma_filter_period)

NamesMaFilter(rationale) ==
    "price below MA" \in Range(rationale) \/ "price above MA" \in Range(rationale)

\* C7: with an EMA, SMA or WMA filter whose value is available a buy is
\* returned only above the filter value and a sell only below it; with the
\* filter unavailable or of type "None" no signal is filtered by it
C7_MaFilter ==
    Returned =>
        IF /\ cfg.ma_filter_type \in {"EMA", "SMA", "WMA"}
           /\ Len(call.prices) >= ma_filter_period
        THEN /\ result.signal = "buy"
                  => RGt(call.current_price, MaOf(call.prices))
             /\ result.signal = "sell"
                  => RLt(call.current_price, MaOf(call.prices))
        ELSE cfg.ma_filter_type \in {"EMA", "SMA", "WMA", "None"}
                  => ~NamesMaFilter(result.rationale)

\* a sell that passed an available filter
C7_Witness ==
    /\ Returned
    /\ cfg.ma_filter_type = "WMA"
    /\ Len(call.prices) >= ma_filter_period
    /\ result.signal = "sell"

\* C8: an instance whose ma_filter_type is none of EMA, SMA, WMA, None never
\* returns a buy or a sell
C8_UnknownFilterRejected ==
    cfg.ma_filter_type \notin KnownFilterTypes
        => result.signal \notin {"buy", "sell"}

\* C9: a crossover candidate that a gate blocks comes back as hold without
\* stop_loss and take_profit, its rationale naming exactly the gates that
\* failed; a buy or sell comes back exactly when there is a candidate and
\* both gates pass
C9_Gates(states, asset, cp, prices, e, c, res) ==
    LET buy == buysignal(c, e)
        sell == sellsignal(c, e)
        ma_pass == check_ma_filter(cp, prices, buy)
        stoch_ok == stoch_confirmation(states, asset, res.stoch_rsi, buy, sell)
    IN  IF (buy \/ sell) /\ ma_pass /\ stoch_ok
        THEN res.signal = (IF buy THEN "buy" ELSE "sell")
        ELSE /\ res.signal = "hold"
             /\ res.stop_loss = None
             /\ res.take_profit = None
             /\ (buy \/ sell) =>
                  /\ NamesMaFilter(res.rationale) <=> ~ma_pass
                  /\ "StochRSI not confirmed" \in Range(res.rationale) <=> ~stoch_ok

C9_GateStep ==
    (/\ call'.outcome = "returned"
     /\ prev_states' # prev_states \/ result'.fast_ema # None)
    => C9_Gates(prev_states, call'.asset, call'.current_price, call'.prices,
                ema_values(call'.prices, call'.taapi),
                prev_states'[call'.asset], result')

C9_BlockedNamesGates == [][C9_GateStep]_vars

\* a candidate blocked by both gates
C9_Witness ==
    /\ Returned
    /\ result.signal = "hold"
    /\ NamesMaFilter(result.rationale)
    /\ "StochRSI not confirmed" \in Range(result.rationale)

\* C10: stop_loss and take_profit of a buy or sell follow the formulas for
\* every stop-loss setting
C10_StopLossTakeProfit ==
    LET price == call.current_price
        pct == RDiv(cfg.stop_loss_percent, R(100))
        sl_buy == RMul(price, RSub(R(1), pct))
        sl_sell == RMul(price, RAdd(R(1), pct))
        default_risk == RMul(RMul(R(2), Norm(7, 100)), price)
    IN  /\ (result.signal = "buy" /\ cfg.use_stop_loss) =>
              /\ result.stop_loss = sl_buy
              /\ result.take_profit = RAdd(price, RMul(R(2), RSub(price, sl_buy)))
        /\ (result.signal = "buy" /\ ~cfg.use_stop_loss) =>
              /\ result.stop_loss = None
              /\ result.take_profit = RAdd(price, default_risk)
        /\ (result.signal = "sell" /\ cfg.use_stop_loss) =>
              /\ result.stop_loss = sl_sell
              /\ result.take_profit = RSub(price, RMul(R(2), RSub(sl_sell, price)))
        /\ (result.signal = "sell" /\ ~cfg.use_stop_loss) =>
              /\ result.stop_loss = None
              /\ result.take_profit = RSub(price, default_risk)

\* C11: a call that reaches the crossover evaluation stores the counters it
\* computed, the EMAs it returns, and the K/D it computed or, when it
\* computed none, the K/D stored before it
C11_StoredStep ==
    (call'.outcome = "returned" /\ result'.fast_ema # None)
    => /\ has_state(prev_states', call'.asset)
       /\ prev_states'[call'.asset].fast_ema = result'.fast_ema
       /\ prev_states'[call'.asset].slow_ema = result'.slow_ema
       /\ LET c == update_counts(prev_buy_count(prev_states, call'.asset),
                                 prev_sell_count(prev_states, call'.asset),
                                 ema_values(call'.prices, call'.taapi))
          IN  /\ prev_states'[call'.asset].buy_count = c.buy_count
              /\ prev_states'[call'.asset].sell_count = c.sell_count
       /\ prev_states'[call'.asset].stoch_rsi =
             IF result'.stoch_rsi # NoStoch THEN result'.stoch_rsi
             ELSE IF has_state(prev_states, call'.asset)
                  THEN prev_states[call'.asset].stoch_rsi
                  ELSE NoStoch

C11_StoredStateIsLatest == [][C11_StoredStep]_vars

\* C12: a call whose external indicator source raises returns the result and
\* leaves the stored state of the same call made without a source
C12_SameAs(out) ==
    /\ call'.outcome = out.outcome
    /\ result' = out.result
    /\ prev_states' = store(prev_states, call'.asset, out)

C12_FailStep ==
    (call'.outcome # "none" /\ call'.taapi.kind = "fail")
    => C12_SameAs(analyze(prev_states, call'.asset, call'.current_price,
                          call'.prices, NoTaapi))

C12_FailureIsLocal == [][C12_FailStep]_vars

\* a buy returned by a call whose second fetch raised after the first had
\* returned a series
C12_Witness ==
    /\ Returned
    /\ call.taapi.kind = "fail"
    /\ call.taapi.fast # <<>>
    /\ result.signal = "buy"

\* the stored states of one asset alone
OnlyAsset(states, a) == [x \in DOMAIN states \cap {a} |-> states[x]]

\* C13: an analyze call for one asset leaves every other asset's stored
\* state as it was and returns what it returns with the other assets' states
\* absent; mark_refreshed for one asset leaves every other asset's refresh
\* time, and so its should_refresh, as it was
C13_AnalyzeStep ==
    (/\ call'.outcome # "none"
     /\ <<prev_states, result, call>>' # <<prev_states, result, call>>)
    => /\ \A b \in Assets \ {call'.asset} :
            /\ has_state(prev_states', b) <=> has_state(prev_states, b)
            /\ has_state(prev_states, b) => prev_states'[b] = prev_states[b]
       /\ result' = analyze(OnlyAsset(prev_states, call'.asset), call'.asset,
                            call'.current_price, call'.prices,
                            call'.taapi).result

C13_MarkStep ==
    (/\ mm_call'.op = "mark_refreshed"
     /\ <<last_refresh, mm_call>>' # <<last_refresh, mm_call>>)
    => \A b \in Assets \ {mm_call'.asset} :
            /\ b \in DOMAIN last_refresh' <=> b \in DOMAIN last_refresh
            /\ b \in DOMAIN last_refresh => last_refresh'[b] = last_refresh[b]
            /\ should_refresh(b)' <=> should_refresh(b)

C13_NoCrossAssetCoupling == [][C13_AnalyzeStep /\ C13_MarkStep]_vars

\* a sell for ETH while BTC holds a different stored state, BTC refreshed
\* and ETH not
C13_Witness ==
    /\ Returned
    /\ call.asset = "ETH"
    /\ result.signal = "sell"
    /\ has_state(prev_states, "BTC")
    /\ prev_states["BTC"].buy_count = 2
    /\ "BTC" \in DOMAIN last_refresh
    /\ "ETH" \notin DOMAIN last_refresh

\* C14: two calls for the same asset and bar both return the same buy or
\* sell only if calls for the asset have overlapped (one read the stored
\* state before another wrote it); calls made one after the other never do
C14_DoubleSignalOnlyWhenOverlapped ==
    \A v \in Workers : \A w \in Workers \ {v} :
        (/\ done[v].bar > 0
         /\ done[v].bar = done[w].bar
         /\ done[v].signal \in {"buy", "sell"}
         /\ done[v].signal = done[w].signal)
        => (done[v].overlapped /\ done[w].overlapped)

\* two overlapping calls on one bar both returned buy and one increment of
\* buy_count was lost
C14_Witness ==
    /\ done[1].bar = done[2].bar
    /\ done[1].signal = "buy"
    /\ done[2].signal = "buy"
    /\ done[1].overlapped
    /\ ~inflight[1].active /\ ~inflight[2].active
    /\ has_state(prev_states, "BTC")
    /\ prev_states["BTC"].buy_count = 1

\* the levels calculate_order_levels returned last, if it has been called
LevelsReturned == mm_call.op \in {"calculate_order_levels",
                                  "generate_market_making_plan"}

\* a side has n levels with the level indices 0..n-1 in order
IndexedInOrder(side, n) ==
    /\ Len(side) = n
    /\ \A i \in 1..Len(side) : side[i].level = i - 1

\* offset_bps never decreases along a side
OffsetsNonDecreasing(side) ==
    \A i \in DOMAIN side : \A j \in DOMAIN side :
        i < j => side[i].offset_bps <= side[j].offset_bps

\* offset_bps strictly increases along a side
OffsetsIncreasing(side) ==
    \A i \in DOMAIN side : \A j \in DOMAIN side :
        i < j => side[i].offset_bps < side[j].offset_bps

\* C15: calculate_order_levels returns exactly num_levels bids and asks
\* with level indices 0..num_levels-1 in order; with level_spacing_bps >= 0
\* offset_bps never decreases with the level index, and it strictly
\* increases when level_spacing_bps > 0
C15_LevelCountAndOffsets ==
    (LevelsReturned /\ mm_cfg.level_spacing_bps >= 0) =>
        /\ IndexedInOrder(levels.bids, mm_cfg.num_levels)
        /\ IndexedInOrder(levels.asks, mm_cfg.num_levels)
        /\ OffsetsNonDecreasing(levels.bids)
        /\ OffsetsNonDecreasing(levels.asks)
        /\ mm_cfg.level_spacing_bps > 0 =>
               (OffsetsIncreasing(levels.bids) /\ OffsetsIncreasing(levels.asks))

\* C15 as stated: offset_bps strictly increases for every spacing >= 0
C15_OffsetsStrictForAnySpacing ==
    (LevelsReturned /\ mm_cfg.level_spacing_bps >= 0) =>
        /\ IndexedInOrder(levels.bids, mm_cfg.num_levels)
        /\ IndexedInOrder(levels.asks, mm_cfg.num_levels)
        /\ OffsetsIncreasing(levels.bids)
        /\ OffsetsIncreasing(levels.asks)

\* three levels were returned for a positive spacing
C15_Witness ==
    /\ mm_call.op = "calculate_order_levels"
    /\ mm_cfg.level_spacing_bps > 0
    /\ mm_cfg.num_levels = 3
    /\ Len(levels.bids) = 3
    /\ levels.bids[3].offset_bps > levels.bids[1].offset_bps

\* the offset and the prices of level index i, as the documentation states
\* them
StatedLevel(side, i, sign) ==
    /\ side[i + 1].offset_bps
         = mm_cfg.spread_bps + i * mm_cfg.level_spacing_bps
    /\ side[i + 1].price
         = RMul(levels.mid_price,
                Norm(10000 + sign * side[i + 1].offset_bps, 10000))

AllSized(side, size_usd) == \A i \in DOMAIN side : side[i].size_usd = size_usd

\* the sizes are skewed: skew_on_signal and a buy or sell signal
Skewed == mm_cfg.skew_on_signal /\ levels.directional_signal \in {"buy", "sell"}

\* C17: the size multiplier is 1.0 on both sides unless skew_on_signal is
\* set and the directional signal is buy or sell; with buy every bid has
\* order_size_usd * (1 + skew_amount) and every ask
\* order_size_usd * (1 - skew_amount), with sell the reverse (skew 0.3 and
\* base 100: 130 and 70); a hold or absent signal given to
\* generate_market_making_plan never skews
C17_SizeSkew ==
    LevelsReturned =>
        /\ ~Skewed =>
              /\ AllSized(levels.bids, mm_cfg.order_size_usd)
              /\ AllSized(levels.asks, mm_cfg.order_size_usd)
        /\ (Skewed /\ levels.directional_signal = "buy") =>
              /\ AllSized(levels.bids, RMul(mm_cfg.order_size_usd,
                                            RAdd(R(1), mm_cfg.skew_amount)))
              /\ AllSized(levels.asks, RMul(mm_cfg.order_size_usd,
                                            RSub(R(1), mm_cfg.skew_amount)))
        /\ (Skewed /\ levels.directional_signal = "sell") =>
              /\ AllSized(levels.asks, RMul(mm_cfg.order_size_usd,
                                            RAdd(R(1), mm_cfg.skew_amount)))
              /\ AllSized(levels.bids, RMul(mm_cfg.order_size_usd,
                                            RSub(R(1), mm_cfg.skew_amount)))
        /\ (/\ Skewed
            /\ levels.directional_signal = "buy"
            /\ mm_cfg.skew_amount = Norm(3, 10)
            /\ mm_cfg.order_size_usd = R(100)) =>
              (AllSized(levels.bids, R(130)) /\ AllSized(levels.asks, R(70)))
        /\ (/\ mm_call.op = "generate_market_making_plan"
            /\ mm_call.signal \in {NoSignal, "hold"}) =>
              /\ AllSized(plan.bids, mm_cfg.order_size_usd)
              /\ AllSized(plan.asks, mm_cfg.order_size_usd)
              /\ plan.directional_signal = NoSignal

\* a plan was made on a buy signal with skew_on_signal set: bids 130, asks 70
C17_Witness ==
    /\ mm_call.op = "generate_market_making_plan"
    /\ mm_call.signal = "buy"
    /\ mm_cfg.skew_on_signal
    /\ Len(plan.bids) = 3
    /\ plan.bids[1].size_usd = R(130)
    /\ plan.asks[3].size_usd = R(70)

\* the step is a call of adjust_for_inventory
AdjustStep ==
    /\ mm_call'.op = "adjust_for_inventory"
    /\ mm_call' # mm_call

\* the step is a call of adjust_for_inventory with a ratio above 0.3
AdjustingStep ==
    /\ AdjustStep
    /\ mm_call'.max_position # R(0)
    /\ RGt(RAbs(RDiv(mm_call'.current_position, mm_call'.max_position)),
           Norm(3, 10))

\* size and size_usd of every level of side after are those of before times
\* factor, and nothing else of a level changed
TimesFactor(before, after, factor) ==
    /\ Len(after) = Len(before)
    /\ \A i \in DOMAIN before :
          after[i] = [before[i] EXCEPT !.size = RMul(before[i].size, factor),
                                       !.size_usd = RMul(before[i].size_usd,
                                                         factor)]

\* the sides of the plan after the step are those before it times the factors
SidesTimes(bid_factor, ask_factor) ==
    /\ TimesFactor(plan.bids, plan'.bids, bid_factor)
    /\ TimesFactor(plan.asks, plan'.asks, ask_factor)

\* the stated effect of adjust_for_inventory for a ratio and its capped size
StatedAdjustment(ratio, capped) ==
    /\ RGt(ratio, R(0)) => SidesTimes(RSub(R(1), capped), RAdd(R(1), capped))
    /\ RGt(R(0), ratio) => SidesTimes(RAdd(R(1), capped), RSub(R(1), capped))
    /\ plan'.total_bid_size_usd
         = RSum([i \in DOMAIN plan'.bids |-> plan'.bids[i].size_usd])
    /\ plan'.total_ask_size_usd
         = RSum([i \in DOMAIN plan'.asks |-> plan'.asks[i].size_usd])
    /\ ratio = Norm(6, 10) => SidesTimes(Norm(1, 2), Norm(3, 2))

\* the stated effect for a ratio
StatedAdjustmentOf(ratio) ==
    StatedAdjustment(ratio, IF RGt(RAbs(ratio), Norm(1, 2)) THEN Norm(1, 2)
                            ELSE RAbs(ratio))

C18_AdjustStep ==
    AdjustingStep =>
        StatedAdjustmentOf(RDiv(mm_call'.current_position,
                                mm_call'.max_position))

NotAdjustingStep ==
    /\ AdjustStep
    /\ \/ mm_call'.max_position = R(0)
       \/ ~RGt(RAbs(RDiv(mm_call'.current_position, mm_call'.max_position)),
               Norm(3, 10))

C19_NoOpStep == NotAdjustingStep => plan' = plan

\* C19: adjust_for_inventory changes nothing of the plan when
\* max_position = 0 or |current_position / max_position| <= 0.3, the
\* boundary included: levels, totals and the other fields stay and no
\* inventory_adjustment note is added
C19_InventoryNoOp == [][C19_NoOpStep]_vars

\* a three-level plan went through adjust_for_inventory at the boundary
\* ratio 0.3 and has no note
C19_Witness ==
    /\ mm_call.op = "adjust_for_inventory"
    /\ mm_call.current_position = Norm(3, 10)
    /\ mm_call.max_position = R(1)
    /\ Len(plan.bids) = 3
    /\ plan.inventory_adjustment = ""
    /\ plan.directional_signal = NoSignal
    /\ plan.total_bid_size_usd = R(300)

\* the step is a call of mark_refreshed for asset a
MarkStepOf(a) ==
    /\ mm_call'.op = "mark_refreshed"
    /\ mm_call'.asset = a
    /\ <<last_refresh, mm_call>>' # <<last_refresh, mm_call>>

\* last_refresh holds for asset a the time of its most recent mark_refreshed
\* call and nothing before the first one
KeepsMostRecentMark(a) ==
    IF MarkStepOf(a)
    THEN a \in DOMAIN last_refresh' /\ last_refresh'[a] = now'
    ELSE /\ (a \in DOMAIN last_refresh') = (a \in DOMAIN last_refresh)
         /\ a \in DOMAIN last_refresh => last_refresh'[a] = last_refresh[a]

\* after the step should_refresh is true for a never marked asset and
\* otherwise tells whether the time since the most recent mark has reached
\* refresh_interval_sec
TrueWhenElapsed(a) ==
    /\ a \notin DOMAIN last_refresh' => should_refresh(a)'
    /\ a \in DOMAIN last_refresh' =>
          (should_refresh(a)'
             = (now' - last_refresh'[a] >= mm_cfg'.refresh_interval_sec))

C20_RefreshStep ==
    \A a \in Assets :
        /\ KeepsMostRecentMark(a)
        /\ TrueWhenElapsed(a)
        /\ (MarkStepOf(a) /\ mm_cfg.refresh_interval_sec > 0)
               => ~should_refresh(a)'

\* C20: for each asset should_refresh is true at every time before the
\* first mark_refreshed call, true at every time at which the time since the
\* most recent mark_refreshed is >= refresh_interval_sec and false while it
\* is smaller; with refresh_interval_sec > 0 it is false immediately after a
\* mark_refreshed call
C20_RefreshTimer ==
    /\ [](\A a \in Assets : a \notin DOMAIN last_refresh => should_refresh(a))
    /\ [][C20_RefreshStep]_vars

C20_FalseAfterMarkStep ==
    \A a \in Assets :
        /\ KeepsMostRecentMark(a)
        /\ TrueWhenElapsed(a)
        /\ MarkStepOf(a) => ~should_refresh(a)'

\* C20 as stated: should_refresh is false immediately after every
\* mark_refreshed call
C20_FalseAfterEveryMark ==
    /\ [](\A a \in Assets : a \notin DOMAIN last_refresh => should_refresh(a))
    /\ [][C20_FalseAfterMarkStep]_vars

\* BTC was marked, refresh_interval_sec seconds have passed since, and a
\* plan made now says to refresh it, while ETH, marked later, is not due
C20_Witness ==
    /\ mm_cfg.refresh_interval_sec = 2
    /\ "BTC" \in DOMAIN last_refresh
    /\ "ETH" \in DOMAIN last_refresh
    /\ now - last_refresh["BTC"] = 2
    /\ now - last_refresh["ETH"] = 1
    /\ should_refresh("BTC")
    /\ ~should_refresh("ETH")
    /\ mm_call.op = "generate_market_making_plan"
    /\ plan.asset = "BTC"
    /\ plan.timestamp = now
    /\ plan.should_refresh

\* the step is a call that makes a plan for asset a
PlanStepOf(a) ==
    /\ mm_call'.op \in {"generate_market_making_plan", "combine_with_trader_xo"}
    /\ mm_call'.asset = a
    /\ <<plan, mm_call>>' # <<plan, mm_call>>

\* the refresh of asset a is due by the documented rule
RefreshDue(a) ==
    \/ a \notin DOMAIN last_refresh
    \/ now - last_refresh[a] >= mm_cfg.refresh_interval_sec

\* the plan held is one for asset a that reported a due refresh, and a has
\* not been marked since it was made
DuePlanNotYetMarked(a) ==
    /\ plan # NoPlan
    /\ plan.asset = a
    /\ plan.should_refresh
    /\ a \in DOMAIN last_refresh => last_refresh[a] < plan.timestamp

C21_ClockStep ==
    /\ mm_call'.op # "mark_refreshed" => last_refresh' = last_refresh
    /\ \A a \in Assets :
          PlanStepOf(a) =>
              /\ plan'.should_refresh = RefreshDue(a)
              /\ plan'.should_refresh = should_refresh(a)
              /\ DuePlanNotYetMarked(a) => plan'.should_refresh

\* C21: only mark_refreshed changes the refresh timestamps; should_refresh,
\* calculate_order_levels, generate_market_making_plan,
\* combine_with_trader_xo and adjust_for_inventory leave them alone, the
\* plan's should_refresh field is should_refresh(asset) at the time the
\* plan is made, and a plan made again for an asset not marked since keeps
\* reporting the refresh as due
C21_OnlyMarkMovesClock == [][C21_ClockStep]_vars

\* BTC was marked, became due, a plan reported it, and a later plan made by
\* combine_with_trader_xo still reports it with the timestamp unmoved
C21_Witness ==
    /\ mm_cfg.refresh_interval_sec = 1
    /\ "BTC" \in DOMAIN last_refresh
    /\ last_refresh["BTC"] = 0
    /\ now = 2
    /\ mm_call.op = "combine_with_trader_xo"
    /\ plan.asset = "BTC"
    /\ plan.timestamp = 2
    /\ plan.should_refresh
    /\ plan.trader_xo_context.signal = "buy"

\* the step is a call of generate_trade_decisions
DecideStep ==
    /\ decisions'.outcome # "none"
    /\ <<prev_states, decisions>>' # <<prev_states, decisions>>

\* the stored signal state of asset a is the same after the step
SameStoredState(a) ==
    /\ has_state(prev_states', a) = has_state(prev_states, a)
    /\ has_state(prev_states, a) => prev_states'[a] = prev_states[a]

\* record i of the returned list is the explicit hold for missing data
IsInsufficientHold(rec) ==
    /\ rec.action = "hold"
    /\ rec.rationale = <<"Insufficient market data">>
    /\ rec.tp_price = None
    /\ rec.sl_price = None

\* the record carries what analyze returns for the asset on its market data
CarriesAnalysis(rec, data, out) ==
    /\ out.outcome = "returned"
    /\ rec.action = out.result.signal
    /\ rec.tp_price = out.result.take_profit
    /\ rec.sl_price = out.result.stop_loss

\* the call that ended as d returned one record per entry of its assets
\* list, as documented
StatedDecisions(d) ==
    /\ d.outcome = "returned"
    /\ Len(d.records) = Len(d.assets)
    /\ \A i \in DOMAIN d.assets :
          /\ i \in DOMAIN d.records
          /\ d.records[i].asset = d.assets[i]
          /\ IF lacks_data(d.market_data[d.assets[i]])
             THEN /\ IsInsufficientHold(d.records[i])
                  /\ d.assets[i] \notin Range(d.analyzed)
                  /\ SameStoredState(d.assets[i])
             ELSE (\A j \in DOMAIN d.assets : d.assets[j] = d.assets[i] => j = i)
                  => CarriesAnalysis(
                        d.records[i], d.market_data[d.assets[i]],
                        analyze(prev_states, d.assets[i],
                                d.market_data[d.assets[i]].current_price,
                                d.market_data[d.assets[i]].price_history,
                                NoTaapi))

C22_DecideStep == DecideStep => StatedDecisions(decisions')

\* C22: generate_trade_decisions returns exactly one decision record per
\* entry of the assets list, in order; an asset without a current price or
\* with an empty history gets a hold with an insufficient-data rationale and
\* no tp/sl, analyze is not called for it and its stored state stays; every
\* other asset's record carries the signal, take_profit and stop_loss that
\* analyze returns
C22_OneDecisionPerAsset == [][C22_DecideStep]_vars

\* one step of the recurrence from the previous bar's EMA
EmaStep(previous, price, period) ==
    RAdd(RMul(RSub(price, previous), Norm(2, period + 1)), previous)

\* C23: calculate_ema returns None when len(prices) < period; on exactly
\* period prices it is their mean, and on more it is one recurrence step
\* with alpha = 2 / (period + 1) from the EMA of the prices without the last
C23_EmaRecurrence ==
    ind_call.fn = "calculate_ema" =>
        /\ Len(ind_call.prices) < ind_call.period => ind_call.value = None
        /\ Len(ind_call.prices) = ind_call.period =>
              ind_call.value = RDiv(RSum(ind_call.prices), R(ind_call.period))
        /\ Len(ind_call.prices) > ind_call.period =>
              ind_call.value
                = EmaStep(calculate_ema(ButLast(ind_call.prices), ind_call.period),
                          ind_call.prices[Len(ind_call.prices)],
                          ind_call.period)

\* the EMA of period 2 was computed on a six-bar sequence that moves
C23_Witness ==
    /\ ind_call.fn = "calculate_ema"
    /\ ind_call.period = fast_ema_period
    /\ ind_call.prices = <<R(1), R(2), R(2), R(1), R(1), R(2)>>
    /\ ind_call.value # None
    /\ ind_call.value # R(2)

\* all prices of the sequence are equal
ZeroVariance(prices) == \A i \in DOMAIN prices : prices[i] = prices[1]

\* C24: on a zero-variance sequence long enough for calculate_stochastic_rsi
\* to return a value every raw stochastic value is 50 and K = D = 50; the
\* RSI of such a sequence is 100 (no division by the zero average loss)
C24_FlatPricesGiveFifty ==
    /\ (/\ ind_call.fn = "calculate_stochastic_rsi"
        /\ ZeroVariance(ind_call.prices)
        /\ ind_call.stoch # NoStoch) =>
           /\ ind_call.stoch = [k |-> R(50), d |-> R(50)]
           /\ \A v \in Range(stoch_series(rsi_series(ind_call.prices))) :
                 v = R(50)
    /\ (/\ ind_call.fn = "calculate_rsi"
        /\ ZeroVariance(ind_call.prices)
        /\ ind_call.value # None) => ind_call.value = R(100)

\* calculate_stochastic_rsi returned K = D = 50 on seven equal prices
C24_Witness ==
    /\ ind_call.fn = "calculate_stochastic_rsi"
    /\ Len(ind_call.prices) = 7
    /\ ZeroVariance(ind_call.prices)
    /\ ind_call.stoch = [k |-> R(50), d |-> R(50)]

\* the mean of the last n values of a series
MeanOfLast(series, n) == RDiv(RSum(LastN(series, n)), R(n))

\* the rolling K series: the mean of every stoch_rsi_k consecutive raw values
RollingK(raw) ==
    [j \in 1..(Len(raw) - stoch_rsi_k + 1) |->
        MeanOfLast(SubSeq(raw, 1, j + stoch_rsi_k - 1), stoch_rsi_k)]

\* K and D as documented, from the raw stochastic values
StatedKD(st, raw) ==
    /\ st.k = MeanOfLast(raw, stoch_rsi_k)
    /\ st.d = IF Len(RollingK(raw)) < stoch_rsi_d THEN st.k
              ELSE MeanOfLast(RollingK(raw), stoch_rsi_d)

\* C25: calculate_stochastic_rsi returns None whenever
\* len(prices) < stoch_rsi_length + stoch_length; when it returns a value K
\* is the mean of the last stoch_rsi_k raw stochastic values and D the mean
\* of the last stoch_rsi_d values of the rolling K series, D being K exactly
\* when the history is too short to build stoch_rsi_d values of that series
C25_StochKD ==
    ind_call.fn = "calculate_stochastic_rsi" =>
        /\ Len(ind_call.prices) < stoch_rsi_length + stoch_length
              => ind_call.stoch = NoStoch
        /\ ind_call.stoch # NoStoch
              => StatedKD(ind_call.stoch,
                          stoch_series(rsi_series(ind_call.prices)))

\* the step is a LighterAPI call
DexStep == dex_call'.calls = dex_call.calls + 1

\* the mid-price query of the call failed: the getMidPrice call raised or
\* the asset has no order book id
PriceQueryFailed ==
    dex_call'.asset \notin Supported \/ dex_call'.quote = QuoteFails

C26_PriceStep ==
    (DexStep /\ PriceQueryFailed) =>
        /\ dex_call'.outcome = "raised"
        /\ dex_call'.placed = {}
        /\ book' \subseteq book

\* C26: when the mid-price query fails the error is raised out of
\* get_current_price, out of place_buy_order and place_sell_order called
\* without a price and out of refresh_market_making_orders, and no order is
\* placed
C26_PriceFailurePropagates == [][C26_PriceStep]_vars

\* refresh_market_making_orders raised on a failed getMidPrice call after
\* an order had been placed, and the exchange holds no order it placed
C26_Witness ==
    /\ dex_call.op = "refresh_market_making_orders"
    /\ dex_call.asset = "BTC"
    /\ dex_call.quote = QuoteFails
    /\ dex_call.outcome = "raised"
    /\ dex_call.calls = 2
    /\ \A o \in book : o.gen = 1

C27_RefreshStep ==
    (/\ DexStep
     /\ dex_call'.op = "refresh_market_making_orders"
     /\ dex_call'.outcome = "returned") =>
        /\ \A o \in book : o.coin = dex_call'.asset => o \notin book'
        /\ {o \in book' : o.coin = dex_call'.asset} = dex_call'.placed

\* C27: whenever refresh_market_making_orders returns normally every order
\* of the asset that was open before the call has been cancelled and only
\* the freshly placed orders remain open; a failure to list or to cancel
\* is never followed by placing new orders on top of the old ones
C27_RefreshCancelsFirst == [][C27_RefreshStep]_vars

\* the side whose crossover signal the evaluation of the step computes
SideOfStep ==
    candidate_side(prev_states, call'.asset, call'.prices, call'.taapi)

C28_CandidateStep ==
    call'.outcome # "none" =>
        /\ SideOfStep = "buy" => ~candidates[call'.asset].buy
        /\ SideOfStep = "sell" => ~candidates[call'.asset].sell
        /\ (result.signal = "buy" /\ call.asset = call'.asset)
              => result'.signal # "buy"
        /\ (result.signal = "sell" /\ call.asset = call'.asset)
              => result'.signal # "sell"

\* C28: for one asset under serialized analyze calls, an evaluation that
\* computes a true buysignal is never followed by another one unless an
\* evaluation with the fast EMA below the slow EMA completed in between, the
\* mirrored statement holds for sellsignal, and a call that follows a call
\* that returned buy (sell) does not return buy (sell)
C28_OneCandidatePerRegime == [][C28_CandidateStep]_vars

\* the EMA values of the evaluation of the step, computed locally
EmasOfStep == ema_values(call'.prices, NoTaapi)

\* the step is an evaluation, by the per-bar driver, of an instance without
\* MA filter and stochastic confirmation
GatesOffBarStep ==
    /\ GatesOff
    /\ call'.outcome # "none"
    /\ hist' # hist
    /\ ~insufficient_data(call'.prices)
    /\ ~ema_unavailable(EmasOfStep)

C29_CrossStep ==
    GatesOffBarStep =>
        /\ bullish_cross(EmasOfStep) => result'.signal = "buy"
        /\ bearish_cross(EmasOfStep) => result'.signal = "sell"

\* C29: with ma_filter_type "None", stochastic confirmation disabled, local
\* EMA computation and analyze called once per bar, every evaluation with a
\* bullish cross returns buy and every evaluation with a bearish cross
\* returns sell, also when the bar before had equal fast and slow EMA
C29_EveryCrossSignals == [][C29_CrossStep]_vars

\* the levels of both sides of the plan held
PlanLevels ==
    {plan.bids[i] : i \in DOMAIN plan.bids}
        \cup {plan.asks[i] : i \in DOMAIN plan.asks}

\* sizes are non-negative and the totals are the sums of the sides
SizesAndTotals ==
    /\ \A l \in PlanLevels : RGe(l.size, R(0)) /\ RGe(l.size_usd, R(0))
    /\ plan.total_bid_size_usd
         = float_sum([i \in DOMAIN plan.bids |-> plan.bids[i].size_usd])
    /\ plan.total_ask_size_usd
         = float_sum([i \in DOMAIN plan.asks |-> plan.asks[i].size_usd])

\* price, offset and level index of every level are those before the step
PricesKept(before, after) ==
    /\ Len(after) = Len(before)
    /\ \A i \in DOMAIN before :
          /\ after[i].price = before[i].price
          /\ after[i].offset_bps = before[i].offset_bps
          /\ after[i].level = before[i].level

C30_PricesKeptStep ==
    AdjustStep => /\ PricesKept(plan.bids, plan'.bids)
                  /\ PricesKept(plan.asks, plan'.asks)

C30_ExactPlan ==
    plan # NoPlan =>
        /\ \A l \in PlanLevels : RMul(l.size, plan.mid_price) = l.size_usd
        /\ SizesAndTotals

SizeTolerance ==
    IF mm_cfg.float_bits = 0 THEN R(0)
    ELSE Norm(2 * mm_call.adjusts + 2, 2 ^ mm_cfg.float_bits)

CloseToUsd(l) ==
    RLe(RAbs(RSub(RMul(l.size, plan.mid_price), l.size_usd)),
        RMul(l.size_usd, SizeTolerance))

C30_RoundedPlan ==
    plan # NoPlan => (SizesAndTotals /\ \A l \in PlanLevels : CloseToUsd(l))

\* the step makes a plan whose sizes are the rounded size_usd / mid_price
C30_GenerateStep ==
    (/\ mm_call'.op \in {"generate_market_making_plan", "combine_with_trader_xo"}
     /\ mm_call' # mm_call)
    => \A l \in PlanLevels' : l.size = Fl(RDiv(l.size_usd, plan'.mid_price))

\* the factors adjust_for_inventory can multiply a side with
AdjustFactors ==
    {R(1)} \cup
    (IF mm_call'.max_position = R(0) THEN {}
     ELSE LET adj == adjustment(Fl(RDiv(mm_call'.current_position,
                                        mm_call'.max_position)))
          IN  {Fl(RSub(R(1), adj)), Fl(RAdd(R(1), adj))})

\* size and size_usd of every level of the side got the same factor
SameFactor(before, after) ==
    \E f \in AdjustFactors :
        \A i \in DOMAIN before :
            /\ after[i].size = Fl(RMul(before[i].size, f))
            /\ after[i].size_usd = Fl(RMul(before[i].size_usd, f))

C30_SameFactorStep ==
    AdjustStep => /\ SameFactor(plan.bids, plan'.bids)
                  /\ SameFactor(plan.asks, plan'.asks)

====
